---------------------------- MODULE Spec2Model ----------------------------
(***************************************************************************)
(* Abyss IRC Ultra gateway (IRC/server/src/app.ts, storage/fileStore.ts).  *)
(*                                                                         *)
(* The server is a single Node.js process: every inbound event handler     *)
(* runs to completion before the next one starts, so each handler is one   *)
(* atomic action.  socket.disconnect(true) closes the transport at once    *)
(* when the send buffer of the socket is empty, and then the "disconnect"  *)
(* handler of a displaced session runs inside the handler that displaces   *)
(* it; with packets still buffered the close, and with it the handler,     *)
(* waits until they are sent.                                              *)
(*                                                                         *)
(* Identifiers are small integers; 0 (Null) is null/undefined.  Random     *)
(* UUIDs are drawn from counters (rng).  Fields that no handler ever reads *)
(* (createdAt, lastSeenAt, claimedAt, connectedAt, resumeToken, color,     *)
(* senderDeviceId, replyTo) are left out of the records.                   *)
(***************************************************************************)
EXTENDS Integers, Sequences, FiniteSets, TLC

\* ------------------------------------------------------------------ bounds

MaxSockets == 2
MaxIps == 2
MaxAliases == 2
MaxDevices == 1
MaxChannels == 2
MaxSessions == 2
MaxNonces == 3
MaxMessages == 2
MaxModActions == 1
MaxTicks == 1
MaxBurst == 2
MaxWebIrc == 1
MaxFreshDevices == 1
MaxSmallMessages == 1
MaxSmallBurst == 1
MaxReclaims == 2
MaxFlushes == 2
MaxPasses == 2
MaxSequence == 6
MaxChatBurst == 2

\* one clock step: ten minutes, in milliseconds
TickMs == 600000

\* --------------------------------------------------------- program constants

Null == 0
Lobby == 1
UnknownAlias == 90
globalRateLimitCount == 25
globalRateLimitWindowMs == 5000
MuteMs == 10 * 60 * 1000

Sockets == 1..MaxSockets
Aliases == 1..MaxAliases
Devices == 1..MaxDevices
Channels == 1..MaxChannels
WebIds == 1..MaxWebIrc

Absent == "absent"

\* ------------------------------------------------------------ map helpers

Put(f, k, v) == [x \in (DOMAIN f) \cup {k} |-> IF x = k THEN v ELSE f[x]]

Del(f, k) == [x \in (DOMAIN f) \ {k} |-> f[x]]

EmptyMap == [x \in {} |-> Null]

\* a JavaScript Set keeps insertion order: a sequence without repetitions
SetHas(seq, x) == \E i \in 1..Len(seq) : seq[i] = x

SetAdd(seq, x) == IF SetHas(seq, x) THEN seq ELSE Append(seq, x)

SetDelete(seq, x) == SelectSeq(seq, LAMBDA y : y # x)

\* ------------------------------------------------------------- validation

\* A text input is [given, name, pad, hash, upper]: the name it spells (Null
\* for the empty string), whether blanks surround it, whether it starts with
\* '#', and whether it has upper-case letters.  given = FALSE is undefined.
sanitizeText(input) == IF input.given THEN input.name ELSE Null

normalizeAlias(input) ==
    LET value == sanitizeText(input)
    IN  IF value = Null THEN [ok |-> FALSE, value |-> Null]
        ELSE [ok |-> TRUE, value |-> value]

\* The channel regex accepts upper-case letters; the result is lower-cased.
normalizeChannel(input) ==
    LET value == sanitizeText(input)
    IN  IF value = Null THEN [ok |-> FALSE, value |-> Null]
        ELSE IF ~input.hash THEN [ok |-> FALSE, value |-> Null]
        ELSE [ok |-> TRUE, value |-> value]

\* The string itself, where a handler uses it without normalizing it: a
\* lower-case '#' name is that channel, any other spelling is a different
\* string, and the empty string and undefined are Null.
RawText(input) ==
    IF ~input.given \/ input.name = Null THEN Null
    ELSE IF input.hash /\ ~input.upper /\ ~input.pad THEN input.name
    ELSE input.name + MaxChannels

Text(name) ==
    [given |-> TRUE, name |-> name, pad |-> FALSE, hash |-> TRUE, upper |-> FALSE]

Undefined ==
    [given |-> FALSE, name |-> Null, pad |-> FALSE, hash |-> FALSE, upper |-> FALSE]

\* Message bodies: "" is empty after trim, " hi " trims to "hi".
Trim(body) == IF body = " hi " THEN "hi" ELSE IF body = "  " THEN "" ELSE body

normalizeMessage(body) ==
    LET value == Trim(body)
    IN  IF value = "" THEN [ok |-> FALSE, value |-> ""]
        ELSE [ok |-> TRUE, value |-> value]

\* ------------------------------------------------------------------ roles

ROLE_WEIGHT(role) ==
    CASE role = "OWNER" -> 5
      [] role = "ADMIN" -> 4
      [] role = "OP" -> 3
      [] role = "VOICE" -> 2
      [] role = "MEMBER" -> 1

\* a role test that every member passes
hasRoleAtAll(role, minimum) == role # Absent

hasRoleAtLeast(role, minimum) ==
    IF role = Absent THEN FALSE ELSE ROLE_WEIGHT(role) >= ROLE_WEIGHT(minimum)

roleFromMode(mode) ==
    CASE mode = "op" -> "OP"
      [] mode = "deop" -> "MEMBER"
      [] mode = "voice" -> "VOICE"
      [] mode = "devoice" -> "MEMBER"
      [] OTHER -> Absent

normalizeRoleAlwaysOwner(isOwner) == "OWNER"

normalizeRoleForNewChannel(isOwner) == IF isOwner THEN "OWNER" ELSE "MEMBER"

\* -------------------------------------------------------------- FileStore
\* A store value is [state, dirty, flushTimer]; every method maps a store to
\* the store after the call.

EMPTY_STATE ==
    [devices |-> EmptyMap, aliases |-> EmptyMap, sessions |-> EmptyMap,
     channels |-> EmptyMap, channelMembers |-> EmptyMap,
     dmConversations |-> EmptyMap, messages |-> <<>>,
     moderationActions |-> <<>>, botApps |-> {}]

markDirty(fs) == [fs EXCEPT !.dirty = TRUE, !.flushTimer = TRUE]

upsertDevice(fs, deviceId, publicKey) ==
    markDirty([fs EXCEPT !.state.devices =
        Put(@, deviceId, [publicKey |-> publicKey])])

createSession(fs, sessionId, deviceId, ip) ==
    markDirty([fs EXCEPT !.state.sessions =
        Put(@, sessionId, [deviceId |-> deviceId, alias |-> Null, ip |-> ip,
                           disconnectedAt |-> Null])])

closeSession(fs, sessionId, t) ==
    IF sessionId \notin DOMAIN fs.state.sessions THEN fs
    ELSE markDirty([fs EXCEPT !.state.sessions[sessionId].disconnectedAt = t])

claimAlias(fs, alias, deviceId, sessionId, ip, reclaimNonce) ==
    LET fs1 == [fs EXCEPT !.state.aliases =
                    Put(@, alias, [currentDeviceId |-> deviceId,
                                   activeSessionId |-> sessionId,
                                   lastIp |-> ip,
                                   reclaimNonce |-> reclaimNonce])]
        fs2 == IF sessionId \in DOMAIN fs1.state.sessions
               THEN [fs1 EXCEPT !.state.sessions[sessionId].alias = alias]
               ELSE fs1
    IN  markDirty(fs2)

releaseAlias(fs, alias) ==
    IF alias \notin DOMAIN fs.state.aliases THEN fs
    ELSE markDirty([fs EXCEPT !.state.aliases[alias].activeSessionId = Null])

getAliasRecord(fs, alias) ==
    IF alias \in DOMAIN fs.state.aliases
    THEN [found |-> TRUE, rec |-> fs.state.aliases[alias]]
    ELSE [found |-> FALSE]

\* Object.entries iterates in insertion order; the model returns the set of
\* matches and the caller takes the least one.
findAliasByDevice(fs, deviceId) ==
    {a \in DOMAIN fs.state.aliases :
        fs.state.aliases[a].currentDeviceId = deviceId}

ensureNoChannel(fs, channel, ownerAlias) == fs

ensureChannel(fs, channel, ownerAlias) ==
    IF channel \in DOMAIN fs.state.channels THEN fs
    ELSE markDirty([fs EXCEPT
            !.state.channels = Put(@, channel,
                [topic |-> "", modes |-> {}, ownerAlias |-> ownerAlias]),
            !.state.channelMembers =
                IF channel \in DOMAIN @ THEN @ ELSE Put(@, channel, EmptyMap)])

getChannelTopic(fs, channel) ==
    IF channel \in DOMAIN fs.state.channels
    THEN fs.state.channels[channel].topic ELSE ""

setChannelTopic(fs, channel, topic) ==
    IF channel \notin DOMAIN fs.state.channels THEN fs
    ELSE markDirty([fs EXCEPT !.state.channels[channel].topic = topic])

getChannelModes(fs, channel) ==
    IF channel \in DOMAIN fs.state.channels
    THEN fs.state.channels[channel].modes ELSE {}

setChannelModes(fs, channel, modes) ==
    IF channel \notin DOMAIN fs.state.channels THEN fs
    ELSE markDirty([fs EXCEPT !.state.channels[channel].modes = modes])

MembersOf(fs, channel) ==
    IF channel \in DOMAIN fs.state.channelMembers
    THEN fs.state.channelMembers[channel] ELSE EmptyMap

HasMember(fs, channel, alias) == alias \in DOMAIN MembersOf(fs, channel)

upsertMembership(fs, channel, alias, role, t) ==
    LET members == MembersOf(fs, channel)
        row == IF alias \in DOMAIN members
               THEN [role |-> role, joinedAt |-> members[alias].joinedAt,
                     mutedUntil |-> members[alias].mutedUntil,
                     isBanned |-> FALSE]
               ELSE [role |-> role, joinedAt |-> t, mutedUntil |-> Null,
                     isBanned |-> FALSE]
    IN  markDirty([fs EXCEPT !.state.channelMembers =
            Put(@, channel, Put(members, alias, row))])

partMembership(fs, channel, alias) ==
    IF ~HasMember(fs, channel, alias) THEN fs
    ELSE markDirty([fs EXCEPT !.state.channelMembers[channel] = Del(@, alias)])

setMemberRole(fs, channel, alias, role) ==
    IF ~HasMember(fs, channel, alias) THEN fs
    ELSE markDirty([fs EXCEPT !.state.channelMembers[channel][alias].role = role])

setMemberMute(fs, channel, alias, mutedUntil) ==
    IF ~HasMember(fs, channel, alias) THEN fs
    ELSE markDirty([fs EXCEPT
            !.state.channelMembers[channel][alias].mutedUntil = mutedUntil])

setMemberBan(fs, channel, alias, isBanned, t) ==
    LET members == MembersOf(fs, channel)
        member == IF alias \in DOMAIN members THEN members[alias]
                  ELSE [role |-> "MEMBER", joinedAt |-> t,
                        mutedUntil |-> Null, isBanned |-> isBanned]
    IN  markDirty([fs EXCEPT !.state.channelMembers =
            Put(@, channel, Put(members, alias,
                                [member EXCEPT !.isBanned = isBanned]))])

getMembership(fs, channel, alias) ==
    IF HasMember(fs, channel, alias)
    THEN [found |-> TRUE,
          role |-> MembersOf(fs, channel)[alias].role,
          mutedUntil |-> MembersOf(fs, channel)[alias].mutedUntil,
          isBanned |-> MembersOf(fs, channel)[alias].isBanned]
    ELSE [found |-> FALSE, role |-> Absent, mutedUntil |-> Null,
          isBanned |-> FALSE]

listChannelMembers(fs, channel) ==
    {a \in DOMAIN MembersOf(fs, channel) : ~MembersOf(fs, channel)[a].isBanned}

\* aliases are ordered by their number, which stands for localeCompare
SortedPair(a, b) == IF a <= b THEN <<a, b>> ELSE <<b, a>>

FindDm(fs, pair) ==
    {id \in DOMAIN fs.state.dmConversations :
        /\ fs.state.dmConversations[id].aliasA = pair[1]
        /\ fs.state.dmConversations[id].aliasB = pair[2]}

\* returns [fs, convoId]; a new conversation id is fresh
getOrCreateDmConversation(fs, aliasA, aliasB) ==
    LET sorted == SortedPair(aliasA, aliasB)
        existing == FindDm(fs, sorted)
        convoId == Cardinality(DOMAIN fs.state.dmConversations) + 1
    IN  IF existing # {}
        THEN [fs |-> fs, convoId |-> CHOOSE id \in existing : TRUE]
        ELSE [fs |-> markDirty([fs EXCEPT !.state.dmConversations =
                        Put(@, convoId, [aliasA |-> sorted[1],
                                         aliasB |-> sorted[2]])]),
              convoId |-> convoId]

getDmConversation(fs, convoId) ==
    IF convoId \in DOMAIN fs.state.dmConversations
    THEN [found |-> TRUE, rec |-> fs.state.dmConversations[convoId]]
    ELSE [found |-> FALSE]

\* an insertion at the head of the array
insertMessageFirst(fs, record) ==
    markDirty([fs EXCEPT !.state.messages = <<record>> \o @])

insertMessage(fs, record) ==
    markDirty([fs EXCEPT !.state.messages = Append(@, record)])

MessageIndex(fs, messageId) ==
    {i \in 1..Len(fs.state.messages) : fs.state.messages[i].messageId = messageId}

findMessage(fs, messageId) ==
    IF MessageIndex(fs, messageId) = {} THEN [found |-> FALSE]
    ELSE [found |-> TRUE,
          rec |-> fs.state.messages[CHOOSE i \in MessageIndex(fs, messageId) :
                        \A j \in MessageIndex(fs, messageId) : i <= j]]

editMessage(fs, messageId, body) ==
    IF MessageIndex(fs, messageId) = {} THEN fs
    ELSE LET i == CHOOSE k \in MessageIndex(fs, messageId) :
                      \A j \in MessageIndex(fs, messageId) : k <= j
         IN  markDirty([fs EXCEPT !.state.messages[i].body = body])

deleteMessage(fs, messageId, t) ==
    IF MessageIndex(fs, messageId) = {} THEN fs
    ELSE LET i == CHOOSE k \in MessageIndex(fs, messageId) :
                      \A j \in MessageIndex(fs, messageId) : k <= j
         IN  markDirty([fs EXCEPT !.state.messages[i].deletedAt = t])

\* a toggle that pushes an entry of its own whenever the alias is not in the
\* first entry of the emoji
toggleReactionApart(fs, messageId, alias, emoji) ==
    LET i == CHOOSE k \in MessageIndex(fs, messageId) : TRUE
        reactions == fs.state.messages[i].reactions
        mine == {k \in 1..Len(reactions) :
                    reactions[k] = [emoji |-> emoji, aliases |-> <<alias>>]}
        e == CHOOSE k \in mine : TRUE
    IN  IF MessageIndex(fs, messageId) = {} THEN [fs |-> fs, added |-> FALSE]
        ELSE IF mine = {}
        THEN [fs |-> markDirty([fs EXCEPT !.state.messages[i].reactions =
                        Append(@, [emoji |-> emoji, aliases |-> <<alias>>])]),
              added |-> TRUE]
        ELSE [fs |-> markDirty([fs EXCEPT !.state.messages[i].reactions =
                        SubSeq(@, 1, e - 1) \o SubSeq(@, e + 1, Len(@))]),
              added |-> FALSE]

\* FileStore.toggleReaction: the store it leaves and the value it returns.
\* reactions is the array of {emoji, aliases}, aliases an array.
toggleReaction(fs, messageId, alias, emoji) ==
    IF MessageIndex(fs, messageId) = {} THEN [fs |-> fs, added |-> FALSE]
    ELSE LET i == CHOOSE k \in MessageIndex(fs, messageId) :
                      \A j \in MessageIndex(fs, messageId) : k <= j
             reactions == fs.state.messages[i].reactions
             at == {k \in 1..Len(reactions) : reactions[k].emoji = emoji}
             e == CHOOSE k \in at : \A j \in at : k <= j
             rest == SelectSeq(reactions[e].aliases, LAMBDA entry : entry # alias)
             put(r) == markDirty([fs EXCEPT !.state.messages[i].reactions = r])
         IN  IF at = {}
             THEN [fs |-> put(Append(reactions,
                                [emoji |-> emoji, aliases |-> <<alias>>])),
                   added |-> TRUE]
             ELSE IF SetHas(reactions[e].aliases, alias)
             THEN [fs |-> put(IF rest = <<>>
                              THEN SubSeq(reactions, 1, e - 1)
                                   \o SubSeq(reactions, e + 1, Len(reactions))
                              ELSE [reactions EXCEPT ![e].aliases = rest]),
                   added |-> FALSE]
             ELSE [fs |-> put([reactions EXCEPT ![e].aliases = Append(@, alias)]),
                   added |-> TRUE]

buildScopeKey(scope) ==
    IF scope.kind = "channel" THEN <<"channel", scope.channel>>
    ELSE IF scope.kind = "dm" THEN <<"dm", scope.convoId>>
    ELSE <<"thread", scope.threadId>>

\* .sort((a, b) => a.timestamp.localeCompare(b.timestamp)).slice(-limit):
\* the sort is stable and, on ISO timestamps, by the order of the instants
sortedTail(seq, limit) ==
    LET RECURSIVE sort(_)
        sort(q) ==
            IF q = <<>> THEN <<>>
            ELSE LET head == sort(SubSeq(q, 1, Len(q) - 1))
                     last == q[Len(q)]
                     k == Cardinality({j \in 1..Len(head) :
                                head[j].timestamp <= last.timestamp})
                 IN  SubSeq(head, 1, k) \o <<last>> \o SubSeq(head, k + 1, Len(head))
        sorted == sort(seq)
    IN  IF limit = 0 \/ limit >= Len(sorted) THEN sorted
        ELSE SubSeq(sorted, Len(sorted) - limit + 1, Len(sorted))

\* a history that keeps the first limit messages
listHistoryHead(fs, scope, limit, before) ==
    LET kept == SelectSeq(fs.state.messages, LAMBDA message :
                    /\ message.deletedAt = Null
                    /\ buildScopeKey(message.scope) = buildScopeKey(scope)
                    /\ (before # Null => message.timestamp < before))
    IN  SubSeq(kept, 1, IF limit < Len(kept) THEN limit ELSE Len(kept))

\* FileStore.listHistory; before Null is a call without one
listHistory(fs, scope, limit, before) ==
    sortedTail(SelectSeq(fs.state.messages, LAMBDA message :
                    /\ message.deletedAt = Null
                    /\ buildScopeKey(message.scope) = buildScopeKey(scope)
                    /\ (before # Null => message.timestamp < before)),
               limit)

\* FileStore.searchChannelMessages, for a term that every body contains
searchChannelMessages(fs, channel, limit) ==
    sortedTail(SelectSeq(fs.state.messages, LAMBDA message :
                    /\ message.scope.kind = "channel"
                    /\ message.scope.channel = channel
                    /\ message.deletedAt = Null
                    /\ message.body # Absent),
               limit)

insertModerationAction(fs, actorAlias, targetAlias, channel, actionType) ==
    markDirty([fs EXCEPT !.state.moderationActions =
        Append(@, [actorAlias |-> actorAlias, targetAlias |-> targetAlias,
                   channel |-> channel, actionType |-> actionType])])


\* --------------------------------------------------------------- hub state

VARIABLES
    liveClients,      \* socket id -> LiveClient, for the connected sockets
    aliasToSocketId,  \* alias -> socket id
    rooms,            \* socket.io adapter: socket id -> set of rooms it is in
    closing,          \* sockets whose forced close waits for their send buffer
    liveWebIrc,       \* line-client id -> WebIrcClient
    store,            \* the FileStore: [state, dirty, flushTimer, own]
    disk,             \* the file at statePath: [kind, doc], a "document"
                      \* with the state it holds, or "missing" / "corrupt"
    flushes,          \* the flush() calls in progress: [pc, doc, by]
    emptyState,       \* the collections the EMPTY_STATE object holds
    phase,            \* "running", or how far stop() has come
    rng,              \* the next values randomUUID() yields, per use
    now,              \* Date.now()
    inbox,            \* socket id -> ids of stored messages received as CREATED
    budget,           \* what a run may use up: [messages, burst, nonces]
    muteOrders,       \* history: <<channel, alias, until>> of each /mute in force
    out,              \* the events the last handler emitted
    clientRegistry,   \* sequence-numbered server: [clientsBySocketId, socketIdByAlias]
    historyStore,     \* sequence-numbered server: [sequence, chatEntries]
    broadcast,        \* history: the chat messages sent as chat_receive, in order
    issued,           \* history: the values nextSequence() returned, in order
    call              \* a call of a string function: [fn, input, result]

vars == <<liveClients, aliasToSocketId, rooms, closing, liveWebIrc, store, disk,
          flushes, emptyState, phase, rng, now, inbox, budget, muteOrders, out,
          clientRegistry, historyStore, broadcast, issued, call>>

roomForAlias(alias) == <<"alias", alias>>

roomForChannel(channel) == <<"channel", channel>>

\* The handlers call one another, so each is an operator from a world (the
\* hub and store state together with what has been emitted so far) to the
\* world after the call. drained tells whether the send buffer of a socket
\* that is force-disconnected during the call is empty.
World ==
    [lc |-> liveClients, idx |-> aliasToSocketId, rm |-> rooms,
     closing |-> closing, drained |-> TRUE,
     fs |-> store, rng |-> rng, inbox |-> inbox, mutes |-> muteOrders,
     emits |-> {}]

\* An emitted event is <<recipient socket, event name, number, detail>>.
EmitTo(w, targets, ev, n, detail) ==
    [w EXCEPT !.emits = @ \cup {<<t, ev, n, detail>> : t \in targets \cap DOMAIN w.rm}]

InRoom(w, room) == {t \in DOMAIN w.rm : room \in w.rm[t]}

emitServerError(w, s, code) == EmitTo(w, {s}, "server_error", Null, code)

emitNetworkSnapshot(w, s) ==
    IF w.lc[s].alias = Null THEN w
    ELSE EmitTo(w, {s}, "network_snapshot", Null, "")

emitPresence(w, alias, status) ==
    EmitTo(w, DOMAIN w.rm, "presence_event", alias, status)

emitChannelEvent(w, channel, type) ==
    EmitTo(w, InRoom(w, roomForChannel(channel)), "channel_event", channel, type)

sendSystemMessage(w, s) == EmitTo(w, {s}, "message_event", Null, "NOTICE")

\* socket.on("disconnect"); socket.io has already taken the socket out of its
\* rooms when the handler runs.
onDisconnect(w, s, t) ==
    IF s \notin DOMAIN w.lc THEN w
    ELSE LET current == w.lc[s]
             w1 == IF current.alias # Null
                   THEN LET a == [w EXCEPT !.idx = Del(@, current.alias)]
                            b == emitPresence(a, current.alias, "offline")
                        IN  [b EXCEPT !.fs = releaseAlias(@, current.alias)]
                   ELSE w
             w2 == IF current.sessionId # Null
                   THEN [w1 EXCEPT !.fs = closeSession(@, current.sessionId, t)]
                   ELSE w1
         IN  [w2 EXCEPT !.lc = Del(@, s)]

\* The transport of s closes: the socket leaves its rooms and its
\* "disconnect" handler runs.
transportClose(w, s, t) ==
    IF s \notin DOMAIN w.rm THEN w
    ELSE onDisconnect([w EXCEPT !.rm = Del(@, s), !.inbox[s] = <<>>,
                               !.closing = @ \ {s}], s, t)

\* socket.disconnect(true): the transport closes at once when the send buffer
\* of the socket is empty, and after the buffer has drained otherwise.
socketDisconnect(w, s, t) ==
    IF s \notin DOMAIN w.rm \/ s \in w.closing THEN w
    ELSE IF w.drained THEN transportClose(w, s, t)
    ELSE [w EXCEPT !.closing = @ \cup {s}]

joinChannel(w, s, channelInput, t) ==
    LET client == w.lc[s]
        normalized == normalizeChannel(channelInput)
        channel == normalized.value
        existsBefore == channel \in DOMAIN w.fs.state.channels
        role == normalizeRoleForNewChannel(~existsBefore)
        fs1 == upsertMembership(ensureChannel(w.fs, channel, client.alias),
                                channel, client.alias, role, t)
        w1 == [w EXCEPT !.fs = fs1,
                        !.lc[s].channels = SetAdd(@, channel),
                        !.rm = IF s \in DOMAIN @
                               THEN [@ EXCEPT ![s] = @ \cup {roomForChannel(channel)}]
                               ELSE @]
        w2 == emitChannelEvent(w1, channel,
                               IF existsBefore THEN "JOINED" ELSE "CREATED")
        w3 == emitPresence(w2, client.alias, client.status)
    IN  IF client.alias = Null THEN emitServerError(w, s, "UNAUTHORIZED")
        ELSE IF ~normalized.ok THEN emitServerError(w, s, "BAD_REQUEST")
        ELSE emitNetworkSnapshot(w3, s)

partChannel(w, s, channelInput) ==
    LET client == w.lc[s]
        normalized == normalizeChannel(channelInput)
        channel == normalized.value
        w1 == [w EXCEPT !.fs = partMembership(@, channel, client.alias),
                        !.lc[s].channels = SetDelete(@, channel),
                        !.rm = IF s \in DOMAIN @
                               THEN [@ EXCEPT ![s] = @ \ {roomForChannel(channel)}]
                               ELSE @]
        w2 == emitChannelEvent(w1, channel, "PARTED")
        w3 == emitPresence(w2, client.alias, client.status)
    IN  IF client.alias = Null THEN emitServerError(w, s, "UNAUTHORIZED")
        ELSE IF ~normalized.ok THEN emitServerError(w, s, "BAD_REQUEST")
        ELSE emitNetworkSnapshot(w3, s)

LobbyInput == Text(Lobby)

\* The reclaim-nonce test of applyAlias (app.ts 387-401): TRUE when the claim
\* is refused with UNAUTHORIZED.
nonceRefused(fs, sessionId, alias, reclaimNonce) ==
    LET persisted == getAliasRecord(fs, alias)
    IN  /\ persisted.found
        /\ persisted.rec.activeSessionId # Null
        /\ persisted.rec.activeSessionId # sessionId
        /\ reclaimNonce # Null
        /\ reclaimNonce # persisted.rec.reclaimNonce

\* The holder test of applyAlias (app.ts 371-385): the socket that holds the
\* alias and is not the claimant, or Null.
otherHolder(w, s, alias) ==
    IF alias \in DOMAIN w.idx /\ w.idx[alias] # s /\ w.idx[alias] \in DOMAIN w.lc
    THEN w.idx[alias] ELSE Null

applyAlias(w, s, aliasInput, reclaimNonce, t) ==
    LET normalized == normalizeAlias(aliasInput)
        alias == normalized.value
        existing == otherHolder(w, s, alias)
        \* existing.socket.disconnect(true)
        w1 == IF existing # Null THEN socketDisconnect(w, existing, t) ELSE w
        client == w1.lc[s]
        w2 == IF client.alias # Null /\ client.alias # alias
              THEN LET a == [w1 EXCEPT
                              !.idx = Del(@, client.alias),
                              !.rm = IF s \in DOMAIN @
                                     THEN [@ EXCEPT ![s] = @ \ {roomForAlias(client.alias)}]
                                     ELSE @,
                              !.fs = releaseAlias(@, client.alias)]
                   IN  emitPresence(a, client.alias, "offline")
              ELSE w1
        hadAlias == client.alias # Null
        nonce == w2.rng.nonce
        w3 == [w2 EXCEPT
                !.lc[s].alias = alias,
                !.lc[s].reclaimNonce = nonce,
                !.rng.nonce = @ + 1,
                !.idx = Put(@, alias, s),
                !.rm = IF s \in DOMAIN @
                       THEN [@ EXCEPT ![s] = @ \cup {roomForAlias(alias)}]
                       ELSE @,
                !.fs = IF client.deviceId # Null /\ client.sessionId # Null
                       THEN claimAlias(@, alias, client.deviceId,
                                       client.sessionId, client.ip, nonce)
                       ELSE @]
        w4 == EmitTo(w3, {s}, "alias_result", alias, "ok")
        w5 == IF ~hadAlias THEN joinChannel(w4, s, LobbyInput, t) ELSE w4
        w6 == emitPresence(w5, alias, w5.lc[s].status)
    IN  IF ~normalized.ok
        THEN EmitTo(w, {s}, "alias_result", Null, "ALIAS_INVALID")
        ELSE IF existing # Null /\ w.lc[existing].ip # w.lc[s].ip
        THEN EmitTo(w, {s}, "alias_result", alias, "ALIAS_IN_USE")
        ELSE IF nonceRefused(w1.fs, client.sessionId, alias, reclaimNonce)
        THEN EmitTo(w1, {s}, "alias_result", alias, "UNAUTHORIZED")
        ELSE emitNetworkSnapshot(w6, s)

\* ----------------------------------------------------------------- actions

\* The bounds of the model: a handler whose result would exceed them is not
\* run.
Within(w) ==
    /\ Len(w.fs.state.messages) <= budget.messages
    /\ Len(w.fs.state.moderationActions) <= MaxModActions
    /\ \A s \in DOMAIN w.lc : Len(w.lc[s].messageTimestamps) <= budget.burst
    /\ w.rng.nonce <= budget.nonces + 1
    /\ w.rng.session <= MaxSessions + 1
    /\ w.rng.device <= MaxFreshDevices + 1

\* { ...EMPTY_STATE } copies references: a collection of the state that the
\* store has not replaced by one of its own is the collection EMPTY_STATE
\* holds, and a change made in place to the one is a change of the other.
Aliased(fs, empty) ==
    [f \in DOMAIN empty |-> IF f \in fs.own THEN empty[f] ELSE fs.state[f]]

\* The state after a handler: the world it leaves and the events it emitted.
Apply(w) ==
    /\ Within(w)
    /\ emptyState' = Aliased(w.fs, emptyState)
    /\ liveClients' = w.lc
    /\ aliasToSocketId' = w.idx
    /\ rooms' = w.rm
    /\ closing' = w.closing
    /\ store' = w.fs
    /\ rng' = w.rng
    /\ inbox' = w.inbox
    /\ budget' = budget
    /\ muteOrders' = w.mutes
    /\ out' = w.emits
    /\ UNCHANGED <<clientRegistry, historyStore, broadcast, issued, call>>

Commit(w, op, s) ==
    /\ Apply(w)
    /\ UNCHANGED <<disk, flushes, phase>>

NewClient(ip) ==
    [ip |-> ip, deviceId |-> Null, devicePublicKey |-> Null,
     sessionId |-> Null, alias |-> Null, reclaimNonce |-> Null,
     status |-> "online", channels |-> <<>>, ignoredAliases |-> {},
     messageTimestamps |-> <<>>]

Document(state) == [kind |-> "document", doc |-> state]

\* What init() leaves in an empty state: the echo bot.
Seeded == [EMPTY_STATE EXCEPT !.botApps = {"echo"}]

\* A server that createChatServer() made and start() started on a missing
\* document, once its first flush is through; with the budget of the run.
\* no string function has been called
NoCall == [fn |-> "", input |-> <<>>, result |-> <<>>]

Start(b) ==
    /\ budget = b
    /\ liveClients = EmptyMap
    /\ aliasToSocketId = EmptyMap
    /\ rooms = EmptyMap
    /\ closing = {}
    /\ liveWebIrc = EmptyMap
    /\ store = [state |-> Seeded, dirty |-> FALSE, flushTimer |-> FALSE,
                own |-> {"messages"}]
    /\ disk = Document(Seeded)
    /\ flushes = <<>>
    /\ emptyState = Seeded
    /\ phase = "running"
    /\ rng = [session |-> 1, nonce |-> 1, device |-> 1]
    /\ now = TickMs
    /\ inbox = [s \in Sockets |-> <<>>]
    /\ muteOrders = {}
    /\ out = {}
    /\ clientRegistry = [clientsBySocketId |-> EmptyMap, socketIdByAlias |-> EmptyMap]
    /\ historyStore = [sequence |-> 0, chatEntries |-> <<>>]
    /\ broadcast = <<>>
    /\ issued = <<>>

Init ==
    /\ call = NoCall
    /\ Start([messages |-> MaxMessages, burst |-> MaxBurst, nonces |-> MaxNonces])

\* a run with two claims granted and one message
InitSmall ==
    /\ call = NoCall
    /\ Start([messages |-> MaxSmallMessages, burst |-> MaxSmallBurst,
           nonces |-> MaxReclaims])

\* a run with two claims granted
InitReclaim ==
    /\ call = NoCall
    /\ Start([messages |-> MaxMessages, burst |-> MaxBurst, nonces |-> MaxReclaims])

\* a socket whose packets the server still handles
Open(s) == s \in DOMAIN liveClients /\ s \notin closing

\* io.on("connection")
Connect(s, ip) ==
    /\ s \notin DOMAIN liveClients
    /\ phase \in {"running", "flushing"}
    /\ Commit([World EXCEPT !.lc = Put(@, s, NewClient(ip)),
                            !.rm = Put(@, s, {})], "connection", s)
    /\ UNCHANGED <<liveWebIrc, now>>

\* socket.on("hello_device"); deviceId Null stands for a payload without one
helloDevice(w, s, deviceId, publicKey) ==
    LET fresh == deviceId = Null
        dev == IF fresh THEN MaxDevices + w.rng.device ELSE deviceId
        sid == w.rng.session
        fs1 == createSession(upsertDevice(w.fs, dev, publicKey), sid, dev,
                             w.lc[s].ip)
        w1 == [w EXCEPT !.lc[s].deviceId = dev,
                        !.lc[s].devicePublicKey = publicKey,
                        !.lc[s].sessionId = sid,
                        !.rng.session = @ + 1,
                        !.rng.device = IF fresh THEN @ + 1 ELSE @,
                        !.fs = fs1]
        found == findAliasByDevice(fs1, dev)
        existingAlias == IF found = {} THEN Null
                         ELSE CHOOSE a \in found : \A b \in found : a <= b
    IN  IF publicKey = Null THEN emitServerError(w, s, "BAD_REQUEST")
        ELSE EmitTo(w1, {s}, "session_ready", existingAlias, "")

HelloDevice(s, deviceId, publicKey) ==
    /\ Open(s)
    /\ Commit(helloDevice(World, s, deviceId, publicKey), "hello_device", s)
    /\ UNCHANGED <<liveWebIrc, now>>

\* socket.on("claim_alias"); reclaimNonce Null stands for a payload without one
ClaimAlias(s, aliasInput, reclaimNonce, drained) ==
    /\ Open(s)
    /\ Commit(applyAlias([World EXCEPT !.drained = drained], s, aliasInput,
                         reclaimNonce, now), "claim_alias", s)
    /\ UNCHANGED <<liveWebIrc, now>>

\* command_exec "/nick <alias>": the argument is a token, so it has no blanks
CmdNick(s, alias, drained) ==
    /\ Open(s)
    /\ Commit(applyAlias([World EXCEPT !.drained = drained], s, Text(alias),
                         Null, now), "nick", s)
    /\ UNCHANGED <<liveWebIrc, now>>

\* command_exec "/quit"
CmdQuit(s, drained) ==
    /\ Open(s)
    /\ Commit(socketDisconnect([World EXCEPT !.drained = drained], s, now),
              "quit", s)
    /\ UNCHANGED <<liveWebIrc, now>>

\* the connection of s closes: its client closes it, or a forced close
\* completes
Disconnect(s) ==
    /\ s \in DOMAIN liveClients
    /\ Commit(transportClose(World, s, now), "disconnect", s)
    /\ UNCHANGED <<liveWebIrc, now>>

\* the aliases as typed, and a blank one
AliasInputs == {Text(a) : a \in Aliases \cup {Null}}

NonceInputs == 0..MaxReclaims

\* Addresses are interchangeable: socket s connects from one of the first s.
\* Sessions without a device: nothing is persisted for their aliases.
NextAlias ==
    \/ \E s \in Sockets : \E ip \in {i \in 1..MaxIps : i <= s} : Connect(s, ip)
    \/ \E s \in Sockets, a \in AliasInputs, d \in BOOLEAN :
            ClaimAlias(s, a, Null, d)
    \/ \E s \in Sockets, a \in Aliases, d \in BOOLEAN : CmdNick(s, a, d)
    \/ \E s \in Sockets, d \in BOOLEAN : CmdQuit(s, d)
    \/ \E s \in Sockets : Disconnect(s)

SpecAlias == Init /\ [][NextAlias]_vars

\* Sessions of devices, all from one address: a claim of a held alias
\* displaces the holder.
NextReclaim ==
    \/ \E s \in Sockets : Connect(s, 1)
    \/ \E s \in Sockets, d \in Devices \cup {Null}, k \in {Null, 1} :
            HelloDevice(s, d, k)
    \/ \E s \in Sockets, a \in AliasInputs, n \in NonceInputs, d \in BOOLEAN :
            ClaimAlias(s, a, n, d)
    \/ \E s \in Sockets, d \in BOOLEAN : CmdQuit(s, d)
    \/ \E s \in Sockets : Disconnect(s)

SpecReclaim == InitReclaim /\ [][NextReclaim]_vars

\* ------------------------------------------------------ channel messages

canSendLate(w, s, t) ==
    LET kept == SelectSeq(w.lc[s].messageTimestamps,
                          LAMBDA ts : t - ts <= globalRateLimitWindowMs)
    IN  IF Len(kept) > globalRateLimitCount
        THEN [w |-> [w EXCEPT !.lc[s].messageTimestamps = kept], ok |-> FALSE]
        ELSE [w |-> [w EXCEPT !.lc[s].messageTimestamps = Append(kept, t)],
              ok |-> TRUE]

canSend(w, s, t) ==
    LET kept == SelectSeq(w.lc[s].messageTimestamps,
                          LAMBDA ts : t - ts <= globalRateLimitWindowMs)
    IN  IF Len(kept) >= globalRateLimitCount
        THEN [w |-> [w EXCEPT !.lc[s].messageTimestamps = kept], ok |-> FALSE]
        ELSE [w |-> [w EXCEPT !.lc[s].messageTimestamps = Append(kept, t)],
              ok |-> TRUE]

DayMs == 24 * 60 * 60 * 1000

\* a cleanup that takes the messages of the cutoff itself as well
runRetentionCleanupThrough(fs, days, t) ==
    markDirty([fs EXCEPT !.own = @ \cup {"messages"},
                         !.state.messages = [i \in DOMAIN @ |->
                            IF @[i].deletedAt = Null /\ @[i].timestamp <= t - days * DayMs
                            THEN [@[i] EXCEPT !.deletedAt = t]
                            ELSE @[i]]])

\* FileStore.runRetentionCleanup at time t: the messages are mapped into a
\* new array, which the instance owns
runRetentionCleanup(fs, days, t) ==
    LET cutoff == t - days * DayMs
        old(message) == message.deletedAt = Null /\ message.timestamp < cutoff
        swept == [fs EXCEPT !.own = @ \cup {"messages"},
                            !.state.messages = [i \in DOMAIN @ |->
                                IF old(@[i]) THEN [@[i] EXCEPT !.deletedAt = t]
                                ELSE @[i]]]
    IN  IF \E i \in DOMAIN fs.state.messages : old(fs.state.messages[i])
        THEN markDirty(swept)
        ELSE swept

Scope(kind, channel, convoId, threadId) ==
    [kind |-> kind, channel |-> channel, convoId |-> convoId,
     threadId |-> threadId]

buildMessage(w, scope, s, kind, body, encryptedPayload, threadId, t) ==
    [messageId |-> Len(w.fs.state.messages) + 1,
     scope |-> scope,
     senderAlias |-> IF w.lc[s].alias # Null THEN w.lc[s].alias ELSE UnknownAlias,
     kind |-> kind,
     body |-> body,
     encryptedPayload |-> encryptedPayload,
     timestamp |-> t,
     threadId |-> threadId,
     reactions |-> <<>>,
     deletedAt |-> Null]

\* socket.io delivers to each recipient in emission order
Deliver(w, targets, type, message) ==
    LET to == targets \cap DOMAIN w.rm
        w1 == EmitTo(w, to, "message_event", message.messageId, type)
    IN  IF type = "CREATED"
        THEN [w1 EXCEPT !.inbox = [x \in DOMAIN @ |->
                    IF x \in to THEN Append(@[x], message.messageId) ELSE @[x]]]
        ELSE w1

emitMessageEvent(w, scope, type, message) ==
    IF scope.kind = "channel" /\ scope.channel # Null
    THEN Deliver(w, InRoom(w, roomForChannel(scope.channel)), type, message)
    ELSE IF scope.kind = "dm" /\ scope.convoId # Null
    THEN LET convo == getDmConversation(w.fs, scope.convoId)
         IN  IF convo.found
             THEN Deliver(w, InRoom(w, roomForAlias(convo.rec.aliasA))
                             \cup InRoom(w, roomForAlias(convo.rec.aliasB)),
                          type, message)
             ELSE w
    ELSE Deliver(w, DOMAIN w.rm, type, message)

\* socket.on("send_channel_message"); threadId Null is a payload without one
sendChannelMessage(w, s, channelInput, body, threadId, t) ==
    LET client == w.lc[s]
        sent == canSend(w, s, t)
        channel == normalizeChannel(channelInput)
        message == normalizeMessage(body)
        membership == getMembership(w.fs, channel.value, client.alias)
        record == buildMessage(sent.w,
                    Scope(IF threadId # Null THEN "thread" ELSE "channel",
                          channel.value, Null, threadId),
                    s, "TEXT", message.value, Absent, threadId, t)
        w1 == [sent.w EXCEPT !.fs = insertMessage(@, record)]
    IN  IF client.alias = Null THEN emitServerError(w, s, "UNAUTHORIZED")
        ELSE IF ~sent.ok THEN emitServerError(sent.w, s, "RATE_LIMIT")
        ELSE IF ~channel.ok \/ ~message.ok
        THEN emitServerError(sent.w, s, "BAD_REQUEST")
        ELSE IF ~membership.found \/ membership.isBanned
        THEN emitServerError(sent.w, s, "FORBIDDEN")
        ELSE IF membership.mutedUntil # Null /\ membership.mutedUntil > t
        THEN emitServerError(sent.w, s, "FORBIDDEN")
        ELSE emitMessageEvent(w1,
                IF threadId # Null THEN Scope("thread", Null, Null, threadId)
                ELSE Scope("channel", channel.value, Null, Null),
                "CREATED", record)

\* executeCommand on input that parseCommand does not take for a command
commandText(w, s, raw, contextChannel, t) ==
    LET client == w.lc[s]
        targetChannel == IF contextChannel.given THEN RawText(contextChannel)
                         ELSE IF Len(client.channels) > 0 THEN client.channels[1]
                         ELSE Null
        normalized == normalizeMessage(raw)
        sent == canSend(w, s, t)
        message == buildMessage(sent.w,
                        Scope("channel", targetChannel, Null, Null),
                        s, "TEXT", normalized.value, Absent, Null, t)
        w1 == [sent.w EXCEPT !.fs = insertMessage(@, message)]
    IN  IF targetChannel = Null THEN emitServerError(w, s, "BAD_REQUEST")
        ELSE IF ~normalized.ok THEN emitServerError(w, s, "BAD_REQUEST")
        ELSE IF ~sent.ok THEN emitServerError(sent.w, s, "RATE_LIMIT")
        ELSE emitMessageEvent(w1, message.scope, "CREATED", message)

\* ------------------------------------------------------------- moderation

EmitModeration(w, channel, action) ==
    EmitTo(w, InRoom(w, roomForChannel(channel)), "moderation_event", channel, action)

setRole(w, s, channelInput, targetAlias, role) ==
    LET actor == w.lc[s]
        normalized == normalizeChannel(channelInput)
        channel == normalized.value
        actorMembership == getMembership(w.fs, channel, actor.alias)
        fs1 == insertModerationAction(
                    setMemberRole(w.fs, channel, targetAlias, role),
                    actor.alias, targetAlias, channel, "ROLE_SET")
        w1 == EmitModeration([w EXCEPT !.fs = fs1], channel, "ROLE_SET")
    IN  IF actor.alias = Null THEN emitServerError(w, s, "UNAUTHORIZED")
        ELSE IF ~normalized.ok THEN emitServerError(w, s, "BAD_REQUEST")
        ELSE IF ~hasRoleAtLeast(actorMembership.role, "OP")
        THEN emitServerError(w, s, "FORBIDDEN")
        ELSE emitChannelEvent(w1, channel, "MEMBER_UPDATED")

\* executeCommand: op, deop, voice, devoice
commandRole(w, s, name, target, channelInput) ==
    LET role == roleFromMode(name)
        normalizedChannel == normalizeChannel(channelInput)
    IN  IF role = Absent THEN w
        ELSE IF ~normalizedChannel.ok THEN emitServerError(w, s, "BAD_REQUEST")
        ELSE setRole(w, s, Text(normalizedChannel.value), target, role)

\* History of the mutes an OP has ordered on a member and not lifted.
OrderMute(mutes, fs, name, channel, target, t) ==
    LET others == {m \in mutes : ~(m[1] = channel /\ m[2] = target)}
    IN  IF name = "mute" /\ HasMember(fs, channel, target)
        THEN others \cup {<<channel, target, t + MuteMs>>}
        ELSE others

\* executeCommand: ban, unban, mute, unmute, kick
commandModerate(w, s, name, target, channelInput, t) ==
    LET client == w.lc[s]
        normalizedChannel == normalizeChannel(channelInput)
        channel == normalizedChannel.value
        membership == getMembership(w.fs, channel, client.alias)
        isBanned == name = "ban"
        banned == EmitModeration(
            [w EXCEPT !.fs = insertModerationAction(
                    setMemberBan(@, channel, target, isBanned, t),
                    IF w.lc[s].alias # Null THEN w.lc[s].alias ELSE UnknownAlias, target, channel,
                    IF isBanned THEN "BAN" ELSE "UNBAN")],
            channel, IF isBanned THEN "BAN" ELSE "UNBAN")
        muted == EmitModeration(
            [w EXCEPT !.fs = setMemberMute(@, channel, target,
                    IF name = "mute" THEN t + MuteMs ELSE Null),
                      !.mutes = OrderMute(@, w.fs, name, channel, target, t)],
            channel, IF name = "mute" THEN "MUTE" ELSE "UNMUTE")
        kickedSocket == IF target \in DOMAIN w.idx /\ w.idx[target] \in DOMAIN w.lc
                        THEN w.idx[target] ELSE Null
        k1 == IF kickedSocket # Null
              THEN emitNetworkSnapshot(
                     [w EXCEPT !.lc[kickedSocket].channels = SetDelete(@, channel),
                               !.rm = IF kickedSocket \in DOMAIN @
                                      THEN [@ EXCEPT ![kickedSocket] =
                                                @ \ {roomForChannel(channel)}]
                                      ELSE @],
                     kickedSocket)
              ELSE w
        kicked == EmitModeration(
            [k1 EXCEPT !.fs = partMembership(@, channel, target)], channel, "KICK")
    IN  IF ~normalizedChannel.ok THEN emitServerError(w, s, "BAD_REQUEST")
        ELSE IF ~hasRoleAtLeast(membership.role, "OP")
        THEN emitServerError(w, s, "FORBIDDEN")
        ELSE IF name \in {"ban", "unban"} THEN banned
        ELSE IF name \in {"mute", "unmute"} THEN muted
        ELSE kicked

\* executeCommand: invite
commandInvite(w, s, target, channelInput) ==
    LET normalizedChannel == normalizeChannel(channelInput)
        channel == normalizedChannel.value
        actorMembership == getMembership(w.fs, channel, w.lc[s].alias)
        w1 == emitChannelEvent(w, channel, "INVITED")
    IN  IF ~normalizedChannel.ok THEN emitServerError(w, s, "BAD_REQUEST")
        ELSE IF ~hasRoleAtLeast(actorMembership.role, "OP")
        THEN emitServerError(w, s, "FORBIDDEN")
        ELSE EmitTo(w1, InRoom(w1, roomForAlias(target)), "channel_event",
                    channel, "INVITED")

\* A mode argument is [given, sign, flag]; the valid flags are +i +m +n +t +k +l.
parseModeFlag(flag) ==
    IF flag \in {"i", "m", "n", "t", "k", "l"} THEN flag ELSE Absent

\* executeCommand: mode
commandMode(w, s, channelInput, arg) ==
    LET normalizedChannel == normalizeChannel(channelInput)
        channel == normalizedChannel.value
        membership == getMembership(w.fs, channel, w.lc[s].alias)
        flag == parseModeFlag(arg.flag)
        modes == IF arg.sign = "-" THEN getChannelModes(w.fs, channel) \ {flag}
                 ELSE getChannelModes(w.fs, channel) \cup {flag}
        w1 == [w EXCEPT !.fs = setChannelModes(@, channel, modes)]
    IN  IF ~normalizedChannel.ok THEN emitServerError(w, s, "BAD_REQUEST")
        ELSE IF ~arg.given THEN sendSystemMessage(w, s)
        ELSE IF ~hasRoleAtLeast(membership.role, "OP")
        THEN emitServerError(w, s, "FORBIDDEN")
        ELSE IF flag = Absent THEN emitServerError(w, s, "BAD_REQUEST")
        ELSE emitChannelEvent(w1, channel, "MODE_CHANGED")

\* executeCommand: topic; topic "" is the command without a new topic
commandTopic(w, s, channelInput, topic) ==
    LET channel == normalizeChannel(channelInput)
        w1 == [w EXCEPT !.fs = setChannelTopic(@, channel.value, topic)]
    IN  IF ~channel.ok THEN emitServerError(w, s, "BAD_REQUEST")
        ELSE IF topic = "" THEN sendSystemMessage(w, s)
        ELSE emitChannelEvent(w1, channel.value, "TOPIC_CHANGED")

\* -------------------------------------------------- direct messages, edits

\* socket.on("send_dm_message")
sendDmMessage(w, s, targetInput, encryptedPayload, t) ==
    LET client == w.lc[s]
        targetAlias == sanitizeText(targetInput)
        convo == getOrCreateDmConversation(w.fs, client.alias, targetAlias)
        w0 == [w EXCEPT !.fs = convo.fs]
        message == buildMessage(w0, Scope("dm", Null, convo.convoId, Null), s,
                                "TEXT", Absent, encryptedPayload, Null, t)
        w1 == [w0 EXCEPT !.fs = insertMessage(@, message)]
        w2 == Deliver(w1, {s}, "CREATED", message)
        w3 == Deliver(w2, InRoom(w2, roomForAlias(targetAlias)), "CREATED", message)
    IN  IF client.alias = Null \/ client.devicePublicKey = Null
        THEN emitServerError(w, s, "UNAUTHORIZED")
        ELSE IF targetAlias = Null THEN emitServerError(w, s, "BAD_REQUEST")
        ELSE emitNetworkSnapshot(w3, s)

\* executeCommand: msg; body "" is the command without a message
commandMsg(w, s, target, body, t) ==
    LET client == w.lc[s]
        convo == getOrCreateDmConversation(w.fs, client.alias, target)
        w0 == [w EXCEPT !.fs = convo.fs]
        normalized == normalizeMessage(body)
        message == buildMessage(w0, Scope("dm", Null, convo.convoId, Null), s,
                                "TEXT",
                                IF normalized.ok THEN normalized.value ELSE body,
                                Absent, Null, t)
        w1 == [w0 EXCEPT !.fs = insertMessage(@, message)]
        w2 == Deliver(w1, {s}, "CREATED", message)
    IN  IF body = "" THEN emitServerError(w, s, "BAD_REQUEST")
        ELSE IF client.alias = Null THEN emitServerError(w, s, "UNAUTHORIZED")
        ELSE Deliver(w2, InRoom(w2, roomForAlias(target)), "CREATED", message)

\* a message_edit that does not look at the author
messageEditByAnyone(w, s, messageId, body) ==
    LET w1 == [w EXCEPT !.fs = editMessage(@, messageId, body)]
        updated == findMessage(w1.fs, messageId)
    IN  IF w.lc[s].alias = Null \/ ~updated.found
        THEN emitServerError(w, s, "FORBIDDEN")
        ELSE emitMessageEvent(w1, updated.rec.scope, "EDITED", updated.rec)

\* socket.on("message_edit")
messageEdit(w, s, messageId, body) ==
    LET client == w.lc[s]
        normalized == normalizeMessage(body)
        existing == findMessage(w.fs, messageId)
        w1 == [w EXCEPT !.fs = editMessage(@, messageId, normalized.value)]
        updated == findMessage(w1.fs, messageId)
    IN  IF client.alias = Null THEN emitServerError(w, s, "UNAUTHORIZED")
        ELSE IF ~normalized.ok THEN emitServerError(w, s, "BAD_REQUEST")
        ELSE IF ~existing.found THEN emitServerError(w, s, "FORBIDDEN")
        ELSE IF existing.rec.senderAlias # client.alias
        THEN emitServerError(w, s, "FORBIDDEN")
        ELSE emitMessageEvent(w1, updated.rec.scope, "EDITED", updated.rec)

\* socket.on("message_delete")
messageDelete(w, s, messageId, t) ==
    LET client == w.lc[s]
        existing == findMessage(w.fs, messageId)
        w1 == [w EXCEPT !.fs = deleteMessage(@, messageId, t)]
        updated == findMessage(w1.fs, messageId)
    IN  IF client.alias = Null THEN emitServerError(w, s, "UNAUTHORIZED")
        ELSE IF ~existing.found THEN emitServerError(w, s, "FORBIDDEN")
        ELSE IF existing.rec.senderAlias # client.alias
        THEN emitServerError(w, s, "FORBIDDEN")
        ELSE emitMessageEvent(w1, updated.rec.scope, "DELETED", updated.rec)

\* socket.on("react_toggle")
reactToggle(w, s, messageId, emoji) ==
    LET client == w.lc[s]
        toggled == toggleReaction(w.fs, messageId, client.alias, emoji)
        updated == findMessage(toggled.fs, messageId)
    IN  IF client.alias = Null THEN emitServerError(w, s, "UNAUTHORIZED")
        ELSE IF ~findMessage(w.fs, messageId).found
        THEN emitServerError(w, s, "BAD_REQUEST")
        ELSE emitMessageEvent([w EXCEPT !.fs = toggled.fs], updated.rec.scope,
                IF toggled.added THEN "REACTION_ADDED" ELSE "REACTION_REMOVED",
                updated.rec)

\* Math.min(Math.max(payload.limit ?? 50, 1), 200); limit is <<>> in a
\* payload without one and <<n>> in a payload with limit n
clampLimit(limit) ==
    LET given == IF limit = <<>> THEN 50 ELSE limit[1]
        atLeast == IF given > 1 THEN given ELSE 1
    IN  IF atLeast < 200 THEN atLeast ELSE 200

\* socket.on("history_fetch"); the snapshot is told by the ids of its
\* messages, in their order
historyFetch(w, s, scope, before, limit) ==
    LET messages == listHistory(w.fs, scope, clampLimit(limit), before)
    IN  EmitTo(w, {s}, "history_snapshot", Null,
               [i \in 1..Len(messages) |-> messages[i].messageId])

\* ------------------------------------------------------------ wire adaptor
\* A world for the line endpoint carries liveWebIrc as well; a reply line to
\* line client id is the event <<-id, "line", Null, numeric>>.

WriteLine(w, id, numeric) ==
    [w EXCEPT !.emits = @ \cup {<<0 - id, "line", Null, numeric>>}]

\* NICK
webNick(w, web, id, aliasInput) ==
    LET normalized == normalizeAlias(aliasInput)
    IN  IF ~normalized.ok THEN [w |-> WriteLine(w, id, "432"), web |-> web]
        ELSE IF normalized.value \in DOMAIN w.idx
        THEN [w |-> WriteLine(w, id, "433"), web |-> web]
        ELSE [w |-> WriteLine(w, id, "001"),
              web |-> [web EXCEPT ![id].alias = normalized.value]]

\* JOIN
webJoin(w, web, id, channelInput) ==
    LET normalized == normalizeChannel(channelInput)
    IN  IF web[id].alias = Null \/ ~normalized.ok
        THEN [w |-> WriteLine(w, id, "461"), web |-> web]
        ELSE [w |-> WriteLine(w, id, "366"),
              web |-> [web EXCEPT ![id].channel = normalized.value]]

\* a PRIVMSG that stores the message of a '#' target and sends it to no room
webPrivmsgStoredOnly(w, web, id, target, text, t) ==
    LET message == [messageId |-> Len(w.fs.state.messages) + 1,
                    scope |-> Scope("channel", target.name, Null, Null),
                    senderAlias |-> web[id].alias,
                    kind |-> "TEXT",
                    body |-> text,
                    encryptedPayload |-> Absent,
                    timestamp |-> t,
                    threadId |-> Null,
                    reactions |-> <<>>,
                    deletedAt |-> Null]
    IN  IF web[id].alias = Null \/ ~target.given \/ target.name = Null
        THEN WriteLine(w, id, "461")
        ELSE IF text = "" THEN WriteLine(w, id, "412")
        ELSE IF target.hash
        THEN WriteLine([w EXCEPT !.fs = insertMessage(@, message)], id, "PRIVMSG")
        ELSE IF target.name \notin DOMAIN w.idx THEN WriteLine(w, id, "401")
        ELSE WriteLine(w, id, "PRIVMSG")

\* PRIVMSG to a '#' target; toLowerCase of the target is its lower-case name
webPrivmsg(w, web, id, target, text, t) ==
    LET channel == target.name
        message == [messageId |-> Len(w.fs.state.messages) + 1,
                    scope |-> Scope("channel", channel, Null, Null),
                    senderAlias |-> web[id].alias,
                    kind |-> "TEXT",
                    body |-> text,
                    encryptedPayload |-> Absent,
                    timestamp |-> t,
                    threadId |-> Null,
                    reactions |-> <<>>,
                    deletedAt |-> Null]
        w1 == [w EXCEPT !.fs = insertMessage(@, message)]
        w2 == Deliver(w1, InRoom(w1, roomForChannel(channel)), "CREATED", message)
    IN  IF web[id].alias = Null \/ ~target.given \/ target.name = Null
        THEN WriteLine(w, id, "461")
        ELSE IF text = "" THEN WriteLine(w, id, "412")
        ELSE IF target.hash THEN WriteLine(w2, id, "PRIVMSG")
        ELSE IF target.name \notin DOMAIN w.idx THEN WriteLine(w, id, "401")
        ELSE WriteLine(w, id, "PRIVMSG")

\* ----------------------------------------------------------------- actions

Handled(s, w, op) ==
    /\ Open(s)
    /\ Commit(w, op, s)
    /\ UNCHANGED <<liveWebIrc, now>>

\* socket.on("join_channel")
JoinChannel(s, channelInput) ==
    /\ Open(s)
    /\ Handled(s, joinChannel(World, s, channelInput, now), "join_channel")

\* socket.on("part_channel")
PartChannel(s, channelInput) ==
    /\ Open(s)
    /\ Handled(s, partChannel(World, s, channelInput), "part_channel")

SendChannelMessage(s, channelInput, body, threadId) ==
    /\ Open(s)
    /\ Handled(s, sendChannelMessage(World, s, channelInput, body, threadId, now),
               "send_channel_message")

CommandText(s, raw, contextChannel) ==
    /\ Open(s)
    /\ Handled(s, commandText(World, s, raw, contextChannel, now), "command_text")

CmdRole(s, name, target, channelInput) ==
    /\ Open(s)
    /\ Handled(s, commandRole(World, s, name, target, channelInput), name)

CmdModerate(s, name, target, channelInput) ==
    /\ Open(s)
    /\ Handled(s, commandModerate(World, s, name, target, channelInput, now), name)

CmdInvite(s, target, channelInput) ==
    /\ Open(s)
    /\ Handled(s, commandInvite(World, s, target, channelInput), "invite")

CmdMode(s, channelInput, arg) ==
    /\ Open(s)
    /\ Handled(s, commandMode(World, s, channelInput, arg), "mode")

CmdTopic(s, channelInput, topic) ==
    /\ Open(s)
    /\ Handled(s, commandTopic(World, s, channelInput, topic), "topic")

\* time passes
Tick ==
    /\ now <= TickMs * MaxTicks
    /\ now' = now + TickMs
    /\ out' = {}
    /\ UNCHANGED <<clientRegistry, historyStore, broadcast, issued, call>>
    /\ UNCHANGED <<liveClients, aliasToSocketId, rooms, closing, liveWebIrc,
                   store, disk, flushes, emptyState, phase, rng, inbox, budget,
                   muteOrders>>

ChannelInputs ==
    {Text(c) : c \in Channels}
        \cup {[Text(c) EXCEPT !.upper = TRUE] : c \in Channels}
        \cup {[Text(c) EXCEPT !.hash = FALSE] : c \in Channels}

\* a channel argument of a command is a token: it has no blanks
CommandChannels ==
    {Text(c) : c \in Channels} \cup {[Text(Lobby) EXCEPT !.hash = FALSE]}

ThreadIds == {Null, 1}

Topics == {"", "t1"}

ModeArgs ==
    {[given |-> FALSE, sign |-> "+", flag |-> "m"],
     [given |-> TRUE, sign |-> "+", flag |-> "m"],
     [given |-> TRUE, sign |-> "-", flag |-> "m"],
     [given |-> TRUE, sign |-> "+", flag |-> "x"]}

\* socket.on("send_dm_message")
SendDmMessage(s, targetInput, encryptedPayload) ==
    /\ Open(s)
    /\ Handled(s, sendDmMessage(World, s, targetInput, encryptedPayload, now),
               "send_dm_message")

CmdMsg(s, target, body) ==
    /\ Open(s)
    /\ Handled(s, commandMsg(World, s, target, body, now), "msg")

MessageEdit(s, messageId, body) ==
    /\ Open(s)
    /\ Handled(s, messageEdit(World, s, messageId, body), "message_edit")

MessageDelete(s, messageId) ==
    /\ Open(s)
    /\ Handled(s, messageDelete(World, s, messageId, now), "message_delete")

ReactToggle(s, messageId, emoji) ==
    /\ Open(s)
    /\ Handled(s, reactToggle(World, s, messageId, emoji), "react_toggle")

HistoryFetch(s, scope, before, limit) ==
    /\ Open(s)
    /\ Handled(s, historyFetch(World, s, scope, before, limit), "history_fetch")

\* the retention timer of start() fires, in a server configured with days
RetentionTimer(days) ==
    /\ phase \in {"running", "flushing"}
    /\ Commit([World EXCEPT !.fs = runRetentionCleanup(@, days, now)],
              "retention", Null)
    /\ UNCHANGED <<liveWebIrc, now>>

WebHandled(w, web) ==
    /\ Commit(w, "webirc", Null)
    /\ liveWebIrc' = web
    /\ UNCHANGED now

\* webIrcServer.on("connection")
WebConnect(id) ==
    /\ id \notin DOMAIN liveWebIrc
    /\ WebHandled(World, Put(liveWebIrc, id, [alias |-> Null, channel |-> Null]))

WebNick(id, aliasInput) ==
    /\ id \in DOMAIN liveWebIrc
    /\ WebHandled(webNick(World, liveWebIrc, id, aliasInput).w,
                  webNick(World, liveWebIrc, id, aliasInput).web)

WebJoin(id, channelInput) ==
    /\ id \in DOMAIN liveWebIrc
    /\ WebHandled(webJoin(World, liveWebIrc, id, channelInput).w,
                  webJoin(World, liveWebIrc, id, channelInput).web)

WebPrivmsg(id, target, text) ==
    /\ id \in DOMAIN liveWebIrc
    /\ WebHandled(webPrivmsg(World, liveWebIrc, id, target, text, now), liveWebIrc)

\* ws.on("close")
WebClose(id) ==
    /\ id \in DOMAIN liveWebIrc
    /\ WebHandled(World, Del(liveWebIrc, id))

\* In the channel specifications every socket has its own address and claims
\* the alias of its own number.

\* moderation and channel settings
NextMod ==
    \/ \E s \in Sockets : Connect(s, s)
    \/ \E s \in Sockets : ClaimAlias(s, Text(s), Null, TRUE)
    \/ \E s \in Sockets, n \in {"op", "deop", "voice", "devoice"},
          a \in Aliases, c \in CommandChannels : CmdRole(s, n, a, c)
    \/ \E s \in Sockets, n \in {"ban", "unban", "mute", "unmute", "kick"},
          a \in Aliases, c \in CommandChannels : CmdModerate(s, n, a, c)
    \/ \E s \in Sockets, a \in Aliases, c \in CommandChannels : CmdInvite(s, a, c)
    \/ \E s \in Sockets, c \in CommandChannels, m \in ModeArgs : CmdMode(s, c, m)
    \/ \E s \in Sockets, c \in CommandChannels, tp \in Topics : CmdTopic(s, c, tp)

SpecMod == InitReclaim /\ [][NextMod]_vars

\* sending to a channel, under mutes and bans
NextSend ==
    \/ \E s \in Sockets : Connect(s, s)
    \/ \E s \in Sockets : ClaimAlias(s, Text(s), Null, TRUE)
    \/ \E s \in Sockets : JoinChannel(s, LobbyInput)
    \/ \E s \in Sockets : PartChannel(s, LobbyInput)
    \/ \E s \in Sockets, c \in CommandChannels, b \in {"hi", "  "} :
            SendChannelMessage(s, c, b, Null)
    \/ \E s \in Sockets, c \in {LobbyInput, Undefined} : CommandText(s, "hi", c)
    \/ \E s \in Sockets, n \in {"mute", "unmute"}, a \in Aliases :
            CmdModerate(s, n, a, LobbyInput)
    \/ Tick

SpecSend == InitSmall /\ [][NextSend]_vars

\* fan-out of channel messages to rooms, from both endpoints
NextFanout ==
    \/ \E s \in Sockets : Connect(s, s)
    \/ \E s \in Sockets, a \in Aliases : ClaimAlias(s, Text(a), Null, TRUE)
    \/ \E s \in Sockets : PartChannel(s, LobbyInput)
    \/ \E s \in Sockets, th \in ThreadIds :
            SendChannelMessage(s, LobbyInput, "hi", th)
    \/ \E s \in Sockets : CommandText(s, "hi", LobbyInput)
    \/ \E id \in WebIds : WebConnect(id)
    \/ \E id \in WebIds, a \in Aliases : WebNick(id, Text(a))
    \/ \E id \in WebIds : WebPrivmsg(id, LobbyInput, "hi")

SpecFanout == InitReclaim /\ [][NextFanout]_vars

\* a while passes, of ms milliseconds, before the time until
Pass(ms, until) ==
    /\ now + ms <= until
    /\ now' = now + ms
    /\ out' = {}
    /\ UNCHANGED <<clientRegistry, historyStore, broadcast, issued, call>>
    /\ UNCHANGED <<liveClients, aliasToSocketId, rooms, closing, liveWebIrc,
                   store, disk, flushes, emptyState, phase, rng, inbox, budget,
                   muteOrders>>

\* a run with as many sends in a burst as the rate limit admits
InitRate ==
    /\ call = NoCall
    /\ Start([messages |-> MaxSmallMessages, burst |-> globalRateLimitCount,
           nonces |-> MaxReclaims])

\* Bursts of sends: the first socket sends blank bodies, which the handler
\* refuses after the rate limiter has admitted them, the others send
\* messages; the clock moves by the window and by the window and a
\* millisecond.
NextRate ==
    \/ \E s \in Sockets : Connect(s, s)
    \/ \E s \in Sockets : ClaimAlias(s, Text(s), Null, TRUE)
    \/ \E s \in Sockets :
            SendChannelMessage(s, LobbyInput, IF s = 1 THEN "  " ELSE "hi", Null)
    \/ \E ms \in {globalRateLimitWindowMs, globalRateLimitWindowMs + 1} :
            Pass(ms, TickMs + MaxPasses * (globalRateLimitWindowMs + 1))

SpecRate == InitRate /\ [][NextRate]_vars

\* memberships and roles over the channels; a session mutes and unmutes
\* itself, outside the lobby
NextMember ==
    \/ \E s \in Sockets : Connect(s, s)
    \/ \E s \in Sockets : ClaimAlias(s, Text(s), Null, TRUE)
    \/ \E s \in Sockets, c \in Channels : JoinChannel(s, Text(c))
    \/ \E s \in Sockets, c \in Channels : PartChannel(s, Text(c))
    \/ \E s \in Sockets, n \in {"op", "deop", "voice", "devoice"},
          a \in Aliases, c \in Channels : CmdRole(s, n, a, Text(c))
    \/ \E s \in Sockets, n \in {"ban", "unban", "kick"},
          a \in Aliases, c \in Channels : CmdModerate(s, n, a, Text(c))
    \/ \E s \in Sockets, n \in {"mute", "unmute"}, c \in Channels \ {Lobby} :
            CmdModerate(s, n, s, Text(c))

SpecMember == InitReclaim /\ [][NextMember]_vars

\* command_exec "/ignore <alias>" and "/unignore <alias>"; arg Null is a
\* command without an argument
commandIgnore(w, s, name, arg) ==
    IF arg = Null THEN emitServerError(w, s, "BAD_REQUEST")
    ELSE sendSystemMessage(
            [w EXCEPT !.lc[s].ignoredAliases =
                IF name = "ignore" THEN @ \cup {arg} ELSE @ \ {arg}], s)

CmdIgnore(s, name, arg) ==
    /\ Open(s)
    /\ Handled(s, commandIgnore(World, s, name, arg), name)

\* what the store holds of each message, and who is sent it
NextMsg ==
    \/ \E s \in Sockets : Connect(s, s)
    \/ \E s \in Sockets, d \in Devices : HelloDevice(s, d, 1)
    \/ \E s \in Sockets : ClaimAlias(s, Text(s), Null, TRUE)
    \/ \E s \in Sockets, a \in Aliases \cup {Null} : SendDmMessage(s, Text(a), "CT")
    \/ \E s \in Sockets, a \in Aliases, b \in {"hi", ""} : CmdMsg(s, a, b)
    \/ \E s \in Sockets : SendChannelMessage(s, LobbyInput, "hi", Null)
    \/ \E s \in Sockets, m \in 1..MaxMessages, b \in {"yo", "  "} :
            MessageEdit(s, m, b)
    \/ \E s \in Sockets, n \in {"ignore", "unignore"} :
            \E a \in (Aliases \ {s}) \cup {Null} : CmdIgnore(s, n, a)

SpecMsg == InitSmall /\ [][NextMsg]_vars

\* The life of the messages of the lobby, in the channel and in a thread:
\* the first socket sends them; they are edited, deleted and swept by the
\* retention timer, and read by history_fetch; the clock moves by a day or
\* by a day and a millisecond.
NextHistory ==
    \/ \E s \in Sockets : Connect(s, s)
    \/ \E s \in Sockets : ClaimAlias(s, Text(s), Null, TRUE)
    \/ \E th \in {Null, 1} : SendChannelMessage(1, LobbyInput, "hi", th)
    \/ \E ms \in {DayMs, DayMs + 1} : Pass(ms, TickMs + DayMs + 1)
    \/ \E s \in Sockets, m \in 1..MaxMessages : MessageEdit(s, m, "yo")
    \/ \E s \in Sockets, m \in 1..MaxMessages : MessageDelete(s, m)
    \/ \E s \in Sockets, th \in {Null, 1}, before \in {Null, TickMs + 1},
          limit \in {<<>>, <<0>>, <<1>>, <<999>>} :
            HistoryFetch(s, Scope(IF th # Null THEN "thread" ELSE "channel",
                                  Lobby, Null, th), before, limit)
    \/ \E days \in {0, 1} : RetentionTimer(days)

SpecHistory == InitReclaim /\ [][NextHistory]_vars

\* One message of the lobby, which the sessions react to with two emojis,
\* and edit and delete.
NextReact ==
    \/ \E s \in Sockets : Connect(s, s)
    \/ \E s \in Sockets : ClaimAlias(s, Text(s), Null, TRUE)
    \/ \E s \in Sockets : SendChannelMessage(s, LobbyInput, "hi", Null)
    \/ \E s \in Sockets, m \in 1..MaxSmallMessages + 1, e \in {"+1", "-1"} :
            ReactToggle(s, m, e)
    \/ \E s \in Sockets, m \in 1..MaxSmallMessages + 1, b \in {"yo", "  "} :
            MessageEdit(s, m, b)
    \/ \E s \in Sockets, m \in 1..MaxSmallMessages + 1 : MessageDelete(s, m)
    \/ Tick

SpecReact == InitSmall /\ [][NextReact]_vars


\* ------------------------------------------------------------------ claims

\* ------------------------------------------------------- store lifecycle
\* FileStore.flush up to its first await: nothing to do unless dirty
flushBegin(fs, fl, by) ==
    IF ~fs.dirty THEN fl
    ELSE Append(fl, [pc |-> "mkdir", doc |-> EMPTY_STATE, by |-> by])

Quiet == UNCHANGED <<liveClients, aliasToSocketId, rooms, closing, liveWebIrc,
                     emptyState, rng, now, inbox, budget, muteOrders>>

\* the timer that markDirty set fires 800 ms later and calls flush()
TimerFires ==
    /\ store.flushTimer
    /\ Len(flushes) < MaxFlushes
    /\ store' = [store EXCEPT !.flushTimer = FALSE]
    /\ flushes' = flushBegin(store, flushes, "timer")
    /\ out' = {}
    /\ UNCHANGED <<clientRegistry, historyStore, broadcast, issued, call>>
    /\ UNCHANGED <<disk, phase>>
    /\ Quiet

\* flush(): mkdir is through; the state is serialized and writeFile begins
MkdirDone(i) ==
    /\ i \in DOMAIN flushes
    /\ flushes[i].pc = "mkdir"
    /\ flushes' = [flushes EXCEPT ![i].pc = "write", ![i].doc = store.state]
    /\ out' = {}
    /\ UNCHANGED <<clientRegistry, historyStore, broadcast, issued, call>>
    /\ UNCHANGED <<store, disk, phase>>
    /\ Quiet

\* FileStore.stop
storeStop(fs) == [fs EXCEPT !.flushTimer = FALSE]

\* io.close() ends every socket: each leaves its rooms and its "disconnect"
\* handler runs, in the order the sockets are kept in
RECURSIVE closeSockets(_, _, _)
closeSockets(w, order, t) ==
    IF order = <<>> THEN w
    ELSE closeSockets(transportClose(w, Head(order), t), Tail(order), t)

Orders ==
    UNION {{o \in [1..n -> Sockets] : \A i, k \in 1..n : i # k => o[i] # o[k]} :
           n \in 0..MaxSockets}

\* stop() after "await store.flush()": store.stop(), then io.close(), up to
\* the call of httpServer.close
stopListeners(w, order, t) ==
    closeSockets([w EXCEPT !.fs = storeStop(@)], order, t)

\* flush(): writeFile is through and dirty is cleared; stop() goes on at
\* once when the flush was its own
WriteDone(i, order) ==
    /\ i \in DOMAIN flushes
    /\ flushes[i].pc = "write"
    /\ disk' = Document(flushes[i].doc)
    /\ flushes' = [k \in 1..(Len(flushes) - 1) |->
                    IF k < i THEN flushes[k] ELSE flushes[k + 1]]
    /\ IF flushes[i].by = "stop"
       THEN /\ {order[k] : k \in DOMAIN order} = DOMAIN rooms
            /\ Apply(stopListeners([World EXCEPT !.fs.dirty = FALSE], order,
                                    now))
            /\ phase' = "closing"
            /\ UNCHANGED <<liveWebIrc, now>>
       ELSE /\ order = <<>>
            /\ store' = [store EXCEPT !.dirty = FALSE]
            /\ out' = {}
            /\ UNCHANGED <<clientRegistry, historyStore, broadcast, issued, call>>
            /\ UNCHANGED phase
            /\ Quiet

\* stop(): with nothing to flush it goes on to the listeners at once, and
\* else it waits for its flush
StopBegin(order) ==
    /\ phase = "running"
    /\ IF store.dirty
       THEN /\ order = <<>>
            /\ Len(flushes) < MaxFlushes
            /\ flushes' = flushBegin(store, flushes, "stop")
            /\ phase' = "flushing"
            /\ out' = {}
            /\ UNCHANGED <<clientRegistry, historyStore, broadcast, issued, call>>
            /\ UNCHANGED <<store, disk>>
            /\ Quiet
       ELSE /\ {order[k] : k \in DOMAIN order} = DOMAIN rooms
            /\ Apply(stopListeners(World, order, now))
            /\ phase' = "closing"
            /\ UNCHANGED <<disk, flushes, liveWebIrc, now>>

\* stop(): httpServer.close is through and stop() completes
StopDone ==
    /\ phase = "closing"
    /\ phase' = "stopped"
    /\ out' = {}
    /\ UNCHANGED <<clientRegistry, historyStore, broadcast, issued, call>>
    /\ UNCHANGED <<store, disk, flushes>>
    /\ Quiet

\* new FileStore(path) and init(): file is what readFile meets, empty is
\* what EMPTY_STATE holds
init(empty, file) ==
    LET parsed == file.kind = "document"
        fs0 == [state |-> IF parsed THEN file.doc ELSE empty,
                dirty |-> FALSE, flushTimer |-> FALSE,
                own |-> IF parsed THEN DOMAIN EMPTY_STATE ELSE {}]
    IN  IF fs0.state.botApps = {}
        THEN markDirty([fs0 EXCEPT !.state.botApps = {"echo"}])
        ELSE fs0

\* In the process of a server that has stopped and whose store is at rest,
\* createChatServer() makes a new server and start() starts it. file tells
\* what became of the document: "kept", or "missing" / "corrupt".
Restart(file) ==
    /\ phase = "stopped"
    /\ ~store.flushTimer
    /\ flushes = <<>>
    /\ LET met == IF file = "kept" THEN disk ELSE [kind |-> file, doc |-> EMPTY_STATE]
           fs == runRetentionCleanup(init(emptyState, met), 1, now)
       IN  /\ store' = fs
           /\ disk' = met
           /\ emptyState' = Aliased(init(emptyState, met), emptyState)
           /\ muteOrders' =
                {m \in muteOrders : /\ HasMember(fs, m[1], m[2])
                                    /\ MembersOf(fs, m[1])[m[2]].mutedUntil = m[3]}
    /\ liveClients' = EmptyMap
    /\ aliasToSocketId' = EmptyMap
    /\ rooms' = EmptyMap
    /\ closing' = {}
    /\ liveWebIrc' = EmptyMap
    /\ inbox' = [s \in Sockets |-> <<>>]
    /\ phase' = "running"
    /\ out' = {}
    /\ UNCHANGED <<clientRegistry, historyStore, broadcast, issued, call>>
    /\ UNCHANGED <<flushes, rng, now, budget>>

\* One address, every socket with its own device and the alias of its own
\* number; the store is flushed by its timer while the sessions go on.
NextFlush ==
    \/ \E s \in Sockets : Connect(s, 1)
    \/ \E s \in Sockets, d \in Devices : HelloDevice(s, d, 1)
    \/ \E s \in Sockets : ClaimAlias(s, Text(s), Null, TRUE)
    \/ TimerFires
    \/ \E i \in 1..MaxFlushes : MkdirDone(i)
    \/ \E i \in 1..MaxFlushes : WriteDone(i, <<>>)

\* A timer that is set fires, and mkdir and writeFile come to an end.
FlushFairness ==
    /\ WF_vars(TimerFires)
    /\ WF_vars(\E i \in 1..MaxFlushes : MkdirDone(i))
    /\ WF_vars(\E i \in 1..MaxFlushes : WriteDone(i, <<>>))

SpecFlush == InitReclaim /\ [][NextFlush]_vars /\ FlushFairness

\* The same server through shutdown, and the servers made after it in the
\* same process.
NextLife ==
    \/ \E s \in Sockets : Connect(s, 1)
    \/ \E s \in Sockets, d \in Devices : HelloDevice(s, d, 1)
    \/ \E s \in Sockets : ClaimAlias(s, Text(s), Null, TRUE)
    \/ TimerFires
    \/ \E i \in 1..MaxFlushes : MkdirDone(i)
    \/ \E i \in 1..MaxFlushes, order \in Orders : WriteDone(i, order)
    \/ \E order \in Orders : StopBegin(order)
    \/ StopDone
    \/ \E file \in {"missing", "corrupt", "kept"} : Restart(file)

SpecLife == InitReclaim /\ [][NextLife]_vars


\* ------------------------------------------ the sequence-numbered server
\* createChatServer of the server with register_alias and chat_send: a
\* ClientRegistry, a HistoryStore and a NoticeBuilder that draws its sequence
\* numbers from the HistoryStore. A handler is an operator from a world
\* [reg, hs, broadcast, issued, emits] to a world.

SeqWorld ==
    [reg |-> clientRegistry, hs |-> historyStore, broadcast |-> broadcast,
     issued |-> issued, emits |-> {}]

\* a nextSequence that gives the sequence out before it counts, once more
\* for the first
nextSequenceStale(hs) ==
    IF hs.sequence < 2 THEN [hs EXCEPT !.sequence = @ + 1] ELSE hs

\* HistoryStore.nextSequence: the store it leaves, whose sequence it returns
nextSequence(hs) == [hs EXCEPT !.sequence = @ + 1]

appendChat(hs, message) == [hs EXCEPT !.chatEntries = Append(@, message)]

snapshot(hs) == hs.chatEntries

\* noticeBuilder.<code>(...) and emitNotice(target, notice)
emitNotice(lw, targets, code) ==
    LET hs == nextSequence(lw.hs)
    IN  [lw EXCEPT !.hs = hs,
                   !.issued = Append(@, hs.sequence),
                   !.emits = @ \cup {<<t, "system_notice", hs.sequence, code>> :
                                        t \in targets}]

broadcastPresence(lw) ==
    [lw EXCEPT !.emits = @ \cup {<<t, "presence_update", Null, "">> :
                                    t \in DOMAIN lw.reg.clientsBySocketId}]

canSendMessage(client, t, maxCount, windowMs) ==
    LET kept == SelectSeq(client.messageTimestamps, LAMBDA ts : t - ts <= windowMs)
    IN  IF Len(kept) >= maxCount
        THEN [client |-> [client EXCEPT !.messageTimestamps = kept], ok |-> FALSE]
        ELSE [client |-> [client EXCEPT !.messageTimestamps = Append(kept, t)],
              ok |-> TRUE]

\* ClientRegistry.setAliasIfAvailable
setAliasIfAvailable(reg, clientId, alias) ==
    LET client == reg.clientsBySocketId[clientId]
        freed == IF client.alias # Null
                    /\ client.alias \in DOMAIN reg.socketIdByAlias
                    /\ reg.socketIdByAlias[client.alias] = clientId
                 THEN Del(reg.socketIdByAlias, client.alias)
                 ELSE reg.socketIdByAlias
    IN  IF clientId \notin DOMAIN reg.clientsBySocketId
        THEN [reg |-> reg, ok |-> FALSE, reason |-> "CLIENT_NOT_FOUND", changed |-> FALSE]
        ELSE IF client.alias = alias
        THEN [reg |-> reg, ok |-> TRUE, reason |-> "", changed |-> FALSE]
        ELSE IF alias \in DOMAIN reg.socketIdByAlias
                /\ reg.socketIdByAlias[alias] # clientId
        THEN [reg |-> reg, ok |-> FALSE, reason |-> "ALIAS_IN_USE", changed |-> FALSE]
        ELSE [reg |-> [reg EXCEPT !.clientsBySocketId[clientId].alias = alias,
                                  !.socketIdByAlias = Put(freed, alias, clientId)],
              ok |-> TRUE, reason |-> "", changed |-> TRUE]

\* io.on("connection")
seqConnection(lw, s, ip, t) ==
    LET w1 == [lw EXCEPT !.emits = @ \cup
                    {<<s, "history_snapshot", Null, snapshot(lw.hs)>>}]
        w2 == [w1 EXCEPT !.reg.clientsBySocketId =
                    Put(@, s, [alias |-> Null, ip |-> ip, messageTimestamps |-> <<>>])]
    IN  emitNotice(broadcastPresence(w2),
                   DOMAIN w2.reg.clientsBySocketId \ {s}, "USER_JOINED")

\* socket.on("register_alias"); alias Null is an input that validateAlias
\* refuses
registerAlias(lw, s, alias) ==
    LET aliasResult == setAliasIfAvailable(lw.reg, s, alias)
    IN  IF alias = Null THEN emitNotice(lw, {s}, "ALIAS_INVALID")
        ELSE IF ~aliasResult.ok
        THEN IF aliasResult.reason = "ALIAS_IN_USE"
             THEN emitNotice(lw, {s}, "ALIAS_IN_USE")
             ELSE lw
        ELSE IF ~aliasResult.changed THEN lw
        ELSE broadcastPresence(
                emitNotice([lw EXCEPT !.reg = aliasResult.reg], {s}, "ALIAS_SET"))

\* socket.on("chat_send"); a text that is blank after trim is one that
\* validateMessage refuses
chatSend(lw, s, text, t) ==
    LET currentClient == lw.reg.clientsBySocketId[s]
        allowed == canSendMessage(currentClient, t, MaxChatBurst,
                                  globalRateLimitWindowMs)
        w1 == [lw EXCEPT !.reg.clientsBySocketId[s] = allowed.client]
        hs == nextSequence(w1.hs)
        message == [sequence |-> hs.sequence,
                    messageId |-> Len(hs.chatEntries) + 1,
                    clientId |-> s,
                    text |-> Trim(text)]
    IN  IF s \notin DOMAIN lw.reg.clientsBySocketId THEN lw
        ELSE IF Trim(text) = "" THEN emitNotice(lw, {s}, "MESSAGE_INVALID")
        ELSE IF ~allowed.ok THEN emitNotice(w1, {s}, "RATE_LIMIT")
        ELSE [w1 EXCEPT !.hs = appendChat(hs, message),
                        !.issued = Append(@, hs.sequence),
                        !.broadcast = Append(@, message),
                        !.emits = @ \cup {<<c, "chat_receive", message.sequence,
                                            message.messageId>> :
                                            c \in DOMAIN w1.reg.clientsBySocketId}]

\* socket.on("disconnect"): ClientRegistry.removeClient and the notice
seqDisconnect(lw, s) ==
    LET client == lw.reg.clientsBySocketId[s]
        w1 == [lw EXCEPT
                !.reg.clientsBySocketId = Del(@, s),
                !.reg.socketIdByAlias =
                    IF client.alias # Null /\ client.alias \in DOMAIN @
                       /\ @[client.alias] = s
                    THEN Del(@, client.alias) ELSE @]
    IN  IF s \notin DOMAIN lw.reg.clientsBySocketId THEN broadcastPresence(lw)
        ELSE emitNotice(broadcastPresence(w1), DOMAIN w1.reg.clientsBySocketId,
                        "USER_LEFT")

\* The state after a handler of the sequence-numbered server, which issues no
\* sequence number beyond MaxSequence.
SeqHandled(lw) ==
    /\ lw.hs.sequence <= MaxSequence
    /\ clientRegistry' = lw.reg
    /\ historyStore' = lw.hs
    /\ broadcast' = lw.broadcast
    /\ issued' = lw.issued
    /\ out' = lw.emits
    /\ UNCHANGED <<liveClients, aliasToSocketId, rooms, closing, liveWebIrc,
                   store, disk, flushes, emptyState, phase, rng, now, inbox,
                   budget, muteOrders, call>>

SeqConnect(s) ==
    /\ s \notin DOMAIN clientRegistry.clientsBySocketId
    /\ SeqHandled(seqConnection(SeqWorld, s, s, now))

RegisterAlias(s, alias) ==
    /\ s \in DOMAIN clientRegistry.clientsBySocketId
    /\ SeqHandled(registerAlias(SeqWorld, s, alias))

ChatSend(s, text) ==
    /\ s \in DOMAIN clientRegistry.clientsBySocketId
    /\ SeqHandled(chatSend(SeqWorld, s, text, now))

SeqDisconnect(s) ==
    /\ s \in DOMAIN clientRegistry.clientsBySocketId
    /\ SeqHandled(seqDisconnect(SeqWorld, s))

NextSeq ==
    \/ \E s \in Sockets : SeqConnect(s)
    \/ \E s \in Sockets, a \in Aliases \cup {Null} : RegisterAlias(s, a)
    \/ \E s \in Sockets, text \in {"hi", "  "} : ChatSend(s, text)
    \/ \E s \in Sockets : SeqDisconnect(s)

SpecSeq == Init /\ [][NextSeq]_vars

\* ---------------------------------------------------------------- strings
\* The validators and the command parser on strings. A string is a sequence
\* of runs [c, n]: n times the character with code c. A value that is not a
\* string has typeof "undefined".

MAX_ALIAS_LENGTH == 24

MAX_MESSAGE_LENGTH == 2000

MAX_CHANNEL_LENGTH == 49

\* the characters String.prototype.trim and \s take for white space, of
\* those below 128: TAB, LF, VT, FF, CR and the space
WhiteSpace == {9, 10, 11, 12, 13, 32}

\* /[\u0000-\u0008\u000B\u000C\u000E-\u001F\u007F]/
CONTROL_CHAR_REGEX == (0 .. 8) \cup {11, 12} \cup (14 .. 31) \cup {127}

\* [A-Za-z0-9_\-]
ChannelChars == (65 .. 90) \cup (97 .. 122) \cup (48 .. 57) \cup {95, 45}

RECURSIVE length(_)
length(str) == IF str = <<>> THEN 0 ELSE str[1].n + length(Tail(str))

trim(str) ==
    LET kept == {i \in DOMAIN str : str[i].c \notin WhiteSpace}
        first == CHOOSE i \in kept : \A j \in kept : i <= j
        last == CHOOSE i \in kept : \A j \in kept : i >= j
    IN  IF kept = {} THEN <<>> ELSE SubSeq(str, first, last)

toLowerCase(str) ==
    [i \in DOMAIN str |->
        IF str[i].c \in 65 .. 90 THEN [str[i] EXCEPT !.c = @ + 32] ELSE str[i]]

sanitizeString(input) ==
    IF input.typeof # "string" THEN <<>> ELSE trim(input.chars)

hasDisallowedControlChars(str) ==
    \E i \in DOMAIN str : str[i].c \in CONTROL_CHAR_REGEX

\* /^#[A-Za-z0-9_\-]{1,48}$/.test(str)
CHANNEL_REGEX(str) ==
    /\ str # <<>>
    /\ str[1] = [c |-> 35, n |-> 1]
    /\ \A i \in DOMAIN str \ {1} : str[i].c \in ChannelChars
    /\ length(Tail(str)) \in 1 .. 48

normalizeAliasString(input) ==
    LET value == sanitizeString(input)
    IN  IF value = <<>> THEN [ok |-> FALSE, value |-> <<>>]
        ELSE IF length(value) > MAX_ALIAS_LENGTH THEN [ok |-> FALSE, value |-> <<>>]
        ELSE IF hasDisallowedControlChars(value) THEN [ok |-> FALSE, value |-> <<>>]
        ELSE [ok |-> TRUE, value |-> value]

normalizeChannelString(input) ==
    LET value == sanitizeString(input)
    IN  IF value = <<>> THEN [ok |-> FALSE, value |-> <<>>]
        ELSE IF length(value) > MAX_CHANNEL_LENGTH THEN [ok |-> FALSE, value |-> <<>>]
        ELSE IF ~CHANNEL_REGEX(value) THEN [ok |-> FALSE, value |-> <<>>]
        ELSE [ok |-> TRUE, value |-> toLowerCase(value)]

normalizeMessageString(input) ==
    LET value == sanitizeString(input)
    IN  IF value = <<>> THEN [ok |-> FALSE, value |-> <<>>]
        ELSE IF length(value) > MAX_MESSAGE_LENGTH THEN [ok |-> FALSE, value |-> <<>>]
        ELSE IF hasDisallowedControlChars(value) THEN [ok |-> FALSE, value |-> <<>>]
        ELSE [ok |-> TRUE, value |-> value]

\* The inputs of the validators: up to MaxRuns runs of BEL, TAB, LF, space,
\* '#', 'A', 'a' or DEL, each 1, 24, 48 or 2000 characters long, and a value
\* that is not a string.
MaxRuns == 3

ValidatorChars == {7, 9, 10, 32, 35, 65, 97, 127}

RunLengths == {1, MAX_ALIAS_LENGTH, MAX_CHANNEL_LENGTH - 1, MAX_MESSAGE_LENGTH}

Strings(chars, lengths, most) ==
    UNION {[1 .. k -> [c : chars, n : lengths]] : k \in 0 .. most}

ValidatorInputs ==
    {[typeof |-> "string", chars |-> str] :
        str \in Strings(ValidatorChars, RunLengths, MaxRuns)}
        \cup {[typeof |-> "undefined", chars |-> <<>>]}

\* A call of string function fn on the input drawn at the start.
Called(fn, result) ==
    /\ call.fn = "input"
    /\ call' = [call EXCEPT !.fn = fn, !.result = result]
    /\ UNCHANGED <<liveClients, aliasToSocketId, rooms, closing, liveWebIrc,
                   store, disk, flushes, emptyState, phase, rng, now, inbox,
                   budget, muteOrders, out, clientRegistry, historyStore,
                   broadcast, issued>>

NormalizeAlias == Called("normalizeAlias", normalizeAliasString(call.input))

NormalizeChannel == Called("normalizeChannel", normalizeChannelString(call.input))

NormalizeMessage == Called("normalizeMessage", normalizeMessageString(call.input))

InitValidation ==
    /\ Start([messages |-> MaxMessages, burst |-> MaxBurst, nonces |-> MaxNonces])
    /\ \E input \in ValidatorInputs :
            call = [fn |-> "input", input |-> input, result |-> <<>>]

NextValidation ==
    \/ NormalizeAlias
    \/ NormalizeChannel
    \/ NormalizeMessage

SpecValidation == InitValidation /\ [][NextValidation]_vars

\* ----------------------------------------------------------- parseCommand

\* str.slice(1)
slice1(str) ==
    IF str = <<>> THEN <<>>
    ELSE IF str[1].n = 1 THEN Tail(str)
    ELSE <<[str[1] EXCEPT !.n = @ - 1]>> \o Tail(str)

\* str.split(/\s+/) of a string that neither starts nor ends with white space
RECURSIVE split(_)
split(str) ==
    LET gaps == {i \in DOMAIN str : str[i].c \in WhiteSpace}
        gap == CHOOSE i \in gaps : \A j \in gaps : i <= j
    IN  IF gaps = {} THEN <<str>>
        ELSE <<SubSeq(str, 1, gap - 1)>>
                \o split(trim(SubSeq(str, gap, Len(str))))

\* tokens.join(" ")
RECURSIVE join(_)
join(tokens) ==
    IF tokens = <<>> THEN <<>>
    ELSE IF Len(tokens) = 1 THEN tokens[1]
    ELSE tokens[1] \o <<[c |-> 32, n |-> 1]>> \o join(Tail(tokens))

parseCommand(raw) ==
    LET trimmed == trim(raw)
        withoutSlash == trim(slice1(trimmed))
        tokens == split(withoutSlash)
    IN  IF trimmed = <<>> \/ trimmed[1].c # 47 THEN [null |-> TRUE]
        ELSE IF withoutSlash = <<>> THEN [null |-> TRUE]
        ELSE [null |-> FALSE,
              name |-> toLowerCase(tokens[1]),
              args |-> Tail(tokens),
              rawArgs |-> trim(join(Tail(tokens)))]

\* The inputs of parseCommand: up to MaxCommandLength characters, each '/',
\* 'a', 'S', a space or a TAB.
MaxCommandLength == 6

CommandInputs == Strings({47, 97, 83, 32, 9}, {1}, MaxCommandLength)

ParseCommand == Called("parseCommand", parseCommand(call.input))

InitParse ==
    /\ Start([messages |-> MaxMessages, burst |-> MaxBurst, nonces |-> MaxNonces])
    /\ \E raw \in CommandInputs :
            call = [fn |-> "input", input |-> raw, result |-> <<>>]

NextParse ==
    \/ ParseCommand

SpecParse == InitParse /\ [][NextParse]_vars

\* the sessions the server still serves that hold alias a
Holders(a) == {s \in DOMAIN liveClients \ closing : liveClients[s].alias = a}

C2_ReclaimNeedsNonce ==
    [][\A s \in Sockets, a \in Aliases, n \in NonceInputs, d \in BOOLEAN :
        (/\ ClaimAlias(s, Text(a), n, d)
         /\ a \in DOMAIN store.state.aliases
         /\ liveClients[s].deviceId # Null
         /\ store.state.aliases[a].currentDeviceId # liveClients[s].deviceId
         /\ n # store.state.aliases[a].reclaimNonce)
        => /\ <<s, "alias_result", a, "ok">> \notin out'
           /\ store'.state.aliases[a].currentDeviceId
                = store.state.aliases[a].currentDeviceId
           /\ store'.state.aliases[a].reclaimNonce
                = store.state.aliases[a].reclaimNonce]_vars

Stored == Len(store'.state.messages) > Len(store.state.messages)

\* C3: a send_channel_message by alias A to channel C stores a message only
\* if A has a membership row in C that is not banned and not muted into the
\* future; and while a /mute of A in C is in force (ten minutes not yet over,
\* no /unmute since) no send_channel_message by A to C stores or emits one.
C3_MutedCannotSend ==
    [][\A s \in Sockets, c \in CommandChannels, b \in {"hi", "  "} :
        SendChannelMessage(s, c, b, Null)
        => LET A == liveClients[s].alias
               C == normalizeChannel(c).value
               row == getMembership(store, C, A)
           IN  /\ Stored => /\ row.found
                            /\ ~row.isBanned
                            /\ row.mutedUntil = Null \/ row.mutedUntil <= now
               /\ (\E m \in muteOrders : m[1] = C /\ m[2] = A /\ m[3] > now)
                    => /\ ~Stored
                       /\ \A e \in out' : e[2] # "message_event"]_vars

\* C4: a command_exec with plain text stores a message only when a
\* send_channel_message by the same session with the same channel and body
\* would store one.
C4_TextPassesSendChecks ==
    [][\A s \in Sockets, c \in {LobbyInput, Undefined} :
        (CommandText(s, "hi", c) /\ Stored)
        => LET target == IF c.given THEN c
                         ELSE Text(liveClients[s].channels[1])
               sent == sendChannelMessage(World, s, target, "hi", Null, now)
           IN  Len(sent.fs.state.messages) > Len(store.state.messages)]_vars

\* a membership role below OP, or no membership
BelowOp(role) == role = Absent \/ ROLE_WEIGHT(role) < ROLE_WEIGHT("OP")

\* C6: /topic #c <text> by a session whose alias has no role of at least OP
\* in #c leaves the topic of #c unchanged and emits no TOPIC_CHANGED.
C6_TopicNeedsOp ==
    [][\A s \in Sockets, c \in CommandChannels, tp \in Topics :
        LET C == normalizeChannel(c).value
            row == getMembership(store, C, liveClients[s].alias)
        IN  (CmdTopic(s, c, tp) /\ BelowOp(row.role))
            => /\ getChannelTopic(store', C) = getChannelTopic(store, C)
               /\ \A e \in out' : e[4] # "TOPIC_CHANGED"]_vars

\* what the moderation commands of socket s on channel input c leave behind
Moderated(s, c) ==
    {commandRole(World, s, n, a, c) :
        n \in {"op", "deop", "voice", "devoice"}, a \in Aliases}
    \cup {commandModerate(World, s, n, a, c, now) :
        n \in {"ban", "unban", "mute", "unmute", "kick"}, a \in Aliases}
    \cup {commandInvite(World, s, a, c) : a \in Aliases}
    \cup {commandMode(World, s, c, m) : m \in {x \in ModeArgs : x.given}}

\* C5: /op, /deop, /voice, /devoice, /ban, /unban, /mute, /unmute, /kick,
\* /invite and /mode with a flag, run on a channel by a session whose role
\* there is below OP (or that has no membership or no alias), change nothing
\* in the store, the rooms or the sessions and emit one event only: a
\* server_error FORBIDDEN or UNAUTHORIZED to the originator.
C5_RefusalTouchesNothing ==
    \A s \in Sockets, c \in CommandChannels :
        LET C == normalizeChannel(c)
            row == getMembership(store, C.value, liveClients[s].alias)
        IN  (Open(s) /\ C.ok /\ BelowOp(row.role))
            => \A w \in Moderated(s, c) :
                /\ w.fs = store
                /\ w.rm = rooms
                /\ w.lc = liveClients
                /\ w.idx = aliasToSocketId
                /\ \/ w.emits = {<<s, "server_error", Null, "FORBIDDEN">>}
                   \/ w.emits = {<<s, "server_error", Null, "UNAUTHORIZED">>}

\* a member below OP has just been refused, with another session connected
C5_Witness ==
    \E s \in DOMAIN liveClients :
        /\ getMembership(store, Lobby, liveClients[s].alias).role = "MEMBER"
        /\ out = {<<s, "server_error", Null, "FORBIDDEN">>}
        /\ \E x \in DOMAIN liveClients : x # s /\ roomForChannel(Lobby) \in rooms[x]

\* C7: every stored message has scope kind dm if and only if it has an
\* encryptedPayload and no body, and has exactly one of the two.
C7_DmIffCiphertext ==
    \A i \in 1..Len(store.state.messages) :
        LET m == store.state.messages[i]
        IN  /\ m.scope.kind = "dm"
                <=> (m.encryptedPayload # Absent /\ m.body = Absent)
            /\ (m.body = Absent) # (m.encryptedPayload = Absent)

\* the sockets the last handler sent a message_event CREATED
Receivers == {e[1] : e \in {x \in out : x[2] = "message_event" /\ x[4] = "CREATED"}}

\* C8: the CREATED event of an accepted send_channel_message to channel C,
\* with or without a threadId, goes to exactly the sockets that are in room
\* channel:C.
C8_CreatedToRoomOnly ==
    [][\A s \in Sockets, th \in ThreadIds :
        (SendChannelMessage(s, LobbyInput, "hi", th) /\ Stored)
        => Receivers' = InRoom(World, roomForChannel(Lobby))]_vars

\* the place of a message in the store's messages array
Place(messageId) ==
    CHOOSE i \in MessageIndex(store, messageId) :
        \A j \in MessageIndex(store, messageId) : i <= j

\* the messages of channel room c that socket s has seen CREATED, in the
\* order of their events
Observed(s, c) ==
    SelectSeq(inbox[s],
        LAMBDA id : /\ store.state.messages[Place(id)].scope.kind = "channel"
                    /\ store.state.messages[Place(id)].scope.channel = c)

\* C9: for every channel room, each subscriber sees the CREATED events of the
\* room in the order of the messages in the store's array, so any two
\* subscribers see the messages they both get in the same order.
C9_RoomOrderIsStoreOrder ==
    \A c \in Channels :
        /\ \A s \in Sockets :
            \A i, j \in 1..Len(Observed(s, c)) :
                i < j => Place(Observed(s, c)[i]) < Place(Observed(s, c)[j])
        /\ \A s1, s2 \in Sockets :
            LET both == {Observed(s1, c)[i] : i \in 1..Len(Observed(s1, c))}
                        \cap {Observed(s2, c)[i] : i \in 1..Len(Observed(s2, c))}
            IN  SelectSeq(Observed(s1, c), LAMBDA id : id \in both)
                    = SelectSeq(Observed(s2, c), LAMBDA id : id \in both)

\* two subscribers of #lobby have both seen two messages of two senders
C9_Witness ==
    \E s1, s2 \in DOMAIN liveClients :
        /\ s1 # s2
        /\ Len(Observed(s1, Lobby)) = 2
        /\ Observed(s2, Lobby) = Observed(s1, Lobby)
        /\ store.state.messages[1].senderAlias # store.state.messages[2].senderAlias

\* C11: session rows are one-to-one with connections: every open session row
\* (disconnectedAt = null) is the current session of a live connection, so a
\* live connection has at most one open row and an ended one has none, and
\* no alias record's activeSessionId names the session of an ended
\* connection; also when hello_device arrives twice on one connection.
CurrentSessions == {liveClients[s].sessionId : s \in DOMAIN liveClients}

C11_SessionsOneToOne ==
    /\ \A sid \in DOMAIN store.state.sessions :
            store.state.sessions[sid].disconnectedAt = Null
                => sid \in CurrentSessions
    /\ \A a \in DOMAIN store.state.aliases :
            store.state.aliases[a].activeSessionId # Null
                => \/ store.state.aliases[a].activeSessionId \in CurrentSessions
                   \/ store.state.aliases[a].activeSessionId
                          \notin DOMAIN store.state.sessions
                   \/ store.state.sessions[
                          store.state.aliases[a].activeSessionId
                      ].disconnectedAt = Null

\* C12: every store mutation is eventually persisted: once the mutations
\* have stopped, and with timers firing and file writes coming to an end,
\* the document on disk eventually equals the state in memory and stays so;
\* also for a mutation made while a flush is writing.
C12_EventuallyPersisted == <>[](disk = Document(store.state))

\* C13: when stop() completes, the store is not dirty and no flush timer is
\* pending: nothing that was changed before or during the shutdown, by the
\* disconnect handlers that the closing of the listeners runs included, is
\* still waiting to be written.
C13_StoppedIsFlushed == phase = "stopped" => ~store.dirty /\ ~store.flushTimer

\* C14: after init() on a missing or unparseable document the state in
\* memory is empty but for the seeded echo bot, and the document has been
\* written; also in a process where an earlier store was initialized and
\* mutated.
C14_InitEmptyAndWritten ==
    [][\A file \in {"missing", "corrupt"} :
            Restart(file) => /\ store'.state = Seeded
                             /\ disk' = Document(store'.state)]_vars

\* C15: a session that has executed /ignore X, and no /unignore X since, is
\* delivered no message_event CREATED whose message has senderAlias X.
C15_IgnoredNotDelivered ==
    \A e \in out :
        (e[2] = "message_event" /\ e[4] = "CREATED" /\ e[1] \in DOMAIN liveClients)
            => store.state.messages[Place(e[3])].senderAlias
                   \notin liveClients[e[1]].ignoredAliases

\* C16: while alias A is banned from channel C (its membership row is kept
\* with isBanned = true), a message that a session sends to C is not
\* delivered to the live session of A.
C16_BannedGetsNoMessages ==
    \A s \in DOMAIN liveClients \ closing, x \in DOMAIN rooms :
        getMembership(store, Lobby, liveClients[x].alias).isBanned
            => \A e \in sendChannelMessage(World, s, LobbyInput, "hi", Null,
                                            now).emits :
                    ~(e[1] = x /\ e[2] = "message_event")

\* C17: every membership row (C, A) in channelMembers has a channel record C
\* in channels, whatever joins, parts, role changes, bans, mutes and kicks
\* came before; also a row that /ban made for an alias that never joined.
C17_RowsHaveChannel ==
    \A c \in DOMAIN store.state.channelMembers :
        store.state.channelMembers[c] # EmptyMap => c \in DOMAIN store.state.channels

C17_Witness ==
    \E c \in Channels \ {Lobby}, a \in Aliases, s \in DOMAIN liveClients :
        /\ liveClients[s].alias = a
        /\ ~SetHas(liveClients[s].channels, c)
        /\ HasMember(store, c, a)
        /\ MembersOf(store, c)[a].isBanned
        /\ MembersOf(store, c)[a].joinedAt = now
        /\ c \in DOMAIN store.state.channels

\* C18: join_channel, part_channel and join_channel again of one channel
\* leaves a row with the joinedAt of the later join; for the creator of the
\* channel its role is OWNER, for any other alias it is MEMBER with no mute
\* and no ban.
C18_RejoinKeepsCreator ==
    \A s \in DOMAIN liveClients \ closing, c \in Channels :
        LET alias == liveClients[s].alias
            w1 == joinChannel(World, s, Text(c), now)
            w2 == partChannel(w1, s, Text(c))
            w3 == joinChannel(w2, s, Text(c), now + TickMs)
            row == MembersOf(w3.fs, c)[alias]
        IN  alias # Null =>
                /\ HasMember(w3.fs, c, alias)
                /\ row.joinedAt = now + TickMs
                /\ IF w1.fs.state.channels[c].ownerAlias = alias
                   THEN row.role = "OWNER"
                   ELSE row.role = "MEMBER" /\ row.mutedUntil = Null
                                            /\ ~row.isBanned

\* C19: join_channel gives OWNER to the alias whose join creates the channel
\* and records it as ownerAlias, and MEMBER to an alias that joins an
\* existing channel without a row; so each channel has at most one OWNER row,
\* and its alias is the channel's ownerAlias.
C19_OneOwner ==
    /\ \A c \in DOMAIN store.state.channelMembers :
            \A a \in DOMAIN store.state.channelMembers[c] :
                store.state.channelMembers[c][a].role = "OWNER"
                    => /\ c \in DOMAIN store.state.channels
                       /\ store.state.channels[c].ownerAlias = a
    /\ \A s \in DOMAIN liveClients \ closing, c \in Channels :
            LET alias == liveClients[s].alias
                fs == joinChannel(World, s, Text(c), now).fs
            IN  (alias # Null /\ ~HasMember(store, c, alias)) =>
                    IF c \in DOMAIN store.state.channels
                    THEN MembersOf(fs, c)[alias].role = "MEMBER"
                    ELSE /\ MembersOf(fs, c)[alias].role = "OWNER"
                         /\ fs.state.channels[c].ownerAlias = alias

C19_Witness ==
    \E c \in Channels \ {Lobby}, a, b \in Aliases :
        /\ c \in DOMAIN store.state.channels
        /\ store.state.channels[c].ownerAlias = a
        /\ HasMember(store, c, a) /\ HasMember(store, c, b)
        /\ MembersOf(store, c)[a].role = "OWNER"
        /\ MembersOf(store, c)[b].role = "MEMBER"
        /\ \E s \in DOMAIN rooms : /\ liveClients[s].alias = b
                                   /\ roomForChannel(c) \in rooms[s]

\* C20: per session the rate limiter admits no more than 25 sends within
\* 5000 ms: the timestamps it keeps are the admitted sends of the last
\* window and never more than 25; with 25 of them inside the window the
\* next send_channel_message is refused with RATE_LIMIT and consumes
\* nothing, with fewer it is admitted and recorded; and neither outcome
\* depends on, or touches, the timestamps of another session.
C20_RateLimit ==
    \A s \in DOMAIN liveClients \ closing :
        LET stamps == liveClients[s].messageTimestamps
            kept == SelectSeq(stamps,
                        LAMBDA ts : now - ts <= globalRateLimitWindowMs)
            w == sendChannelMessage(World, s, LobbyInput, "hi", Null, now)
            refusal == <<s, "server_error", Null, "RATE_LIMIT">>
        IN  /\ Len(stamps) <= globalRateLimitCount
            /\ \A i \in DOMAIN stamps :
                    stamps[Len(stamps)] - stamps[i] <= globalRateLimitWindowMs
            /\ liveClients[s].alias # Null =>
                /\ IF Len(kept) >= globalRateLimitCount
                   THEN /\ w.emits = {refusal}
                        /\ w.fs = store
                        /\ w.lc[s].messageTimestamps = kept
                   ELSE /\ refusal \notin w.emits
                        /\ w.lc[s].messageTimestamps = Append(kept, now)
                /\ \A x \in DOMAIN liveClients \ {s} :
                    /\ w.lc[x].messageTimestamps
                           = liveClients[x].messageTimestamps
                    /\ (refusal \in w.emits) <=>
                       (refusal \in sendChannelMessage(
                            [World EXCEPT !.lc[x].messageTimestamps = <<>>],
                            s, LobbyInput, "hi", Null, now).emits)

C20_Witness ==
    \E s \in DOMAIN liveClients, x \in DOMAIN liveClients :
        /\ x # s
        /\ Len(liveClients[s].messageTimestamps) = globalRateLimitCount
        /\ out = {<<s, "server_error", Null, "RATE_LIMIT">>}
        /\ Len(liveClients[x].messageTimestamps) > 0

\* C21: a send_channel_message that is refused with a server_error leaves
\* the store, the rooms, the alias index and every session as they were, the
\* rate-limit window of the sender included: a refused send consumes no
\* quota.
C21_RefusedSendChangesNothing ==
    \A s \in DOMAIN liveClients \ closing, c \in CommandChannels, b \in {"hi", "  "} :
        LET w == sendChannelMessage(World, s, c, b, Null, now)
            window(client) ==
                [client EXCEPT !.messageTimestamps = SelectSeq(@,
                    LAMBDA ts : now - ts <= globalRateLimitWindowMs)]
        IN  (\E e \in w.emits : e[2] = "server_error") =>
                /\ w.fs = store
                /\ w.rm = rooms
                /\ w.idx = aliasToSocketId
                /\ DOMAIN w.lc = DOMAIN liveClients
                /\ \A x \in DOMAIN liveClients :
                        window(w.lc[x]) = window(liveClients[x])

C23_ReactionsUnique ==
    \A i \in 1..Len(store.state.messages) :
        LET reactions == store.state.messages[i].reactions
        IN  /\ \A j, k \in 1..Len(reactions) :
                    reactions[j].emoji = reactions[k].emoji => j = k
            /\ \A j \in 1..Len(reactions) :
                    \A x, y \in 1..Len(reactions[j].aliases) :
                        reactions[j].aliases[x] = reactions[j].aliases[y] => x = y

\* two sessions have reacted to a message with the same emoji, and the first
\* of them with the other emoji as well
C23_Witness ==
    /\ \E e \in out : e[2] = "message_event" /\ e[4] = "REACTION_ADDED"
    /\ \E i \in 1..Len(store.state.messages) :
        LET reactions == store.state.messages[i].reactions
        IN  /\ Len(reactions) = 2
            /\ Len(reactions[1].aliases) = 2
            /\ reactions[1].emoji = "-1"
            /\ reactions[1].aliases[1] = reactions[2].aliases[1]

\* C24: for every stored message, alias of a session and emoji, two calls of
\* toggleReaction(id, alias, emoji) leave the reactions of the message as
\* they were, the order of the entries and of their aliases included, and so
\* do four; the values returned alternate, and the first is true exactly when
\* the alias was not among the aliases of the emoji.
C24_ToggleTwiceRestores ==
    \A s \in DOMAIN liveClients, m \in MessageIndex(store, 1), emoji \in {"+1", "-1"} :
        LET alias == liveClients[s].alias
            before == store.state.messages[m].reactions
            present == \E k \in 1..Len(before) :
                            /\ before[k].emoji = emoji
                            /\ SetHas(before[k].aliases, alias)
            t1 == toggleReaction(store, 1, alias, emoji)
            t2 == toggleReaction(t1.fs, 1, alias, emoji)
            t3 == toggleReaction(t2.fs, 1, alias, emoji)
            t4 == toggleReaction(t3.fs, 1, alias, emoji)
        IN  alias # Null =>
                /\ t2.fs.state.messages[m].reactions = before
                /\ t4.fs.state.messages[m].reactions = before
                /\ t1.added = ~present
                /\ <<t2.added, t3.added, t4.added>> = <<present, ~present, present>>

\* C25: history_fetch {scope, before?, limit?} changes nothing and emits one
\* event, a history_snapshot to the session that asked. With L the limit
\* brought into 1..200 (50 when there is none: 0 gives 1 and 999 gives 200),
\* and the matching messages those of the same scope key that are not
\* tombstoned and, when before is given, are earlier than before, the
\* snapshot holds min(L, number of matching messages) distinct matching
\* messages in ascending order of timestamp, and no matching message left out
\* is later than one that is in.
C25_HistorySnapshot ==
    /\ clampLimit(<<>>) = 50 /\ clampLimit(<<0>>) = 1 /\ clampLimit(<<1>>) = 1
    /\ clampLimit(<<200>>) = 200 /\ clampLimit(<<201>>) = 200
    /\ clampLimit(<<999>>) = 200
    /\ \A s \in DOMAIN liveClients \ closing, th \in {Null, 1},
          before \in {Null, TickMs + 1, TickMs + DayMs},
          limit \in {<<>>, <<0>>, <<1>>, <<2>>, <<999>>} :
        LET scope == Scope(IF th # Null THEN "thread" ELSE "channel", Lobby, Null, th)
            w == historyFetch(World, s, scope, before, limit)
            L == IF limit = <<>> THEN 50
                 ELSE IF limit[1] < 1 THEN 1
                 ELSE IF limit[1] > 200 THEN 200 ELSE limit[1]
            messages == store.state.messages
            matching == {i \in 1..Len(messages) :
                /\ messages[i].deletedAt = Null
                /\ messages[i].scope.kind = scope.kind
                /\ IF scope.kind = "thread"
                   THEN messages[i].scope.threadId = scope.threadId
                   ELSE messages[i].scope.channel = scope.channel
                /\ before # Null => messages[i].timestamp < before}
            at(id) == CHOOSE i \in 1..Len(messages) : messages[i].messageId = id
        IN  /\ w.fs = store /\ w.lc = liveClients /\ w.rm = rooms
            /\ \E e \in w.emits :
                /\ w.emits = {e}
                /\ e[1] = s
                /\ e[2] = "history_snapshot"
                /\ Len(e[4]) = IF L < Cardinality(matching) THEN L
                               ELSE Cardinality(matching)
                /\ \A k \in 1..Len(e[4]) :
                        \E i \in matching : messages[i].messageId = e[4][k]
                /\ \A j, k \in 1..Len(e[4]) :
                        /\ e[4][j] = e[4][k] => j = k
                        /\ j < k => messages[at(e[4][j])].timestamp
                                        <= messages[at(e[4][k])].timestamp
                /\ \A i \in matching :
                        (\A k \in 1..Len(e[4]) : e[4][k] # messages[i].messageId)
                            => \A k \in 1..Len(e[4]) :
                                    messages[i].timestamp
                                        <= messages[at(e[4][k])].timestamp

\* a session has been sent the later of two messages of a scope, sent a day
\* apart, for a limit that admits one
C25_Witness ==
    /\ Len(store.state.messages) = 2
    /\ store.state.messages[1].scope = store.state.messages[2].scope
    /\ store.state.messages[1].timestamp < store.state.messages[2].timestamp
    /\ store.state.messages[1].deletedAt = Null
    /\ store.state.messages[2].deletedAt = Null
    /\ \E e \in out : e[2] = "history_snapshot" /\ e[4] = <<2>>

\* C26: runRetentionCleanup(days) leaves every message whose timestamp is
\* earlier than now minus days with deletedAt set, and alters no message that
\* is not earlier; a message that was tombstoned keeps its deletedAt. In
\* every state a tombstoned message is in no listHistory and in no
\* searchChannelMessages, and findMessage returns it with its deletedAt.
C26_RetentionTombstones ==
    LET messages == store.state.messages
    IN  /\ \A days \in {0, 1} :
            LET swept == runRetentionCleanup(store, days, now).state.messages
            IN  /\ Len(swept) = Len(messages)
                /\ \A i \in 1..Len(messages) :
                    /\ messages[i].timestamp < now - days * DayMs
                            => swept[i].deletedAt # Null
                    /\ (messages[i].timestamp >= now - days * DayMs
                            \/ messages[i].deletedAt # Null)
                            => swept[i] = messages[i]
                    /\ swept[i] = [messages[i] EXCEPT !.deletedAt = swept[i].deletedAt]
        /\ \A i \in 1..Len(messages) :
            messages[i].deletedAt # Null =>
                /\ \A th \in {Null, 1}, before \in {Null, TickMs + 1},
                      limit \in {1, 50, 200} :
                        \A k \in DOMAIN listHistory(store,
                                    Scope(IF th # Null THEN "thread" ELSE "channel",
                                          Lobby, Null, th), limit, before) :
                            listHistory(store,
                                Scope(IF th # Null THEN "thread" ELSE "channel",
                                      Lobby, Null, th), limit, before)[k].messageId
                                # messages[i].messageId
                /\ \A c \in Channels :
                        \A k \in DOMAIN searchChannelMessages(store, c, 8) :
                            searchChannelMessages(store, c, 8)[k].messageId
                                # messages[i].messageId
                /\ findMessage(store, messages[i].messageId).found
                /\ findMessage(store, messages[i].messageId).rec.deletedAt
                        = messages[i].deletedAt

\* the retention timer has tombstoned the older of two messages and left the
\* younger, which a history holds
C26_Witness ==
    /\ Len(store.state.messages) = 2
    /\ store.state.messages[1].timestamp < now - DayMs
    /\ store.state.messages[1].deletedAt = now
    /\ store.state.messages[2].deletedAt = Null
    /\ store.dirty
    /\ out = {}
    /\ listHistory(store, store.state.messages[2].scope, 50, Null) # <<>>

\* C27: every DM conversation record has aliasA strictly less than aliasB, no
\* two records are of the same pair of aliases, and getOrCreateDmConversation
\* gives the same conversation for (a, b) and for (b, a), for every sender
\* alias and every target alias that send_dm_message and /msg accept, the
\* sender's own alias included.
C27_DmPairsOrdered ==
    LET convos == store.state.dmConversations
    IN  /\ \A id \in DOMAIN convos : convos[id].aliasA < convos[id].aliasB
        /\ \A id, other \in DOMAIN convos :
                {convos[id].aliasA, convos[id].aliasB}
                    = {convos[other].aliasA, convos[other].aliasB} => id = other
        /\ \A a, b \in Aliases :
                getOrCreateDmConversation(store, a, b).convoId
                    = getOrCreateDmConversation(store, b, a).convoId

\* C28: whenever claim_alias answers a session alias_result ok for an alias,
\* the persisted record of the alias then holds the reclaim nonce that the
\* answer gives the session, and that nonce is not the one the record held
\* before; for a session that has sent hello_device and for one that has not.
C28_NonceRotates ==
    \A s \in DOMAIN liveClients \ closing, a \in Aliases, n \in NonceInputs :
        LET w == applyAlias(World, s, Text(a), n, now)
        IN  <<s, "alias_result", a, "ok">> \in w.emits =>
                /\ a \in DOMAIN w.fs.state.aliases
                /\ w.fs.state.aliases[a].reclaimNonce = w.lc[s].reclaimNonce
                /\ a \in DOMAIN store.state.aliases =>
                        w.fs.state.aliases[a].reclaimNonce
                            # store.state.aliases[a].reclaimNonce

\* C29: for each device at most one persisted alias record has it as its
\* currentDeviceId, so that findAliasByDevice has one answer; also after a
\* session of the device has gone from one alias to another.
C29_OneAliasPerDevice ==
    \A a, b \in DOMAIN store.state.aliases :
        store.state.aliases[a].currentDeviceId = store.state.aliases[b].currentDeviceId
            => a = b

\* C30: a PRIVMSG of a line client that has set a nick, to a '#' target with
\* a text that is not empty, appends to the stored messages one message of
\* the channel scope of the target in lower case, with the nick as
\* senderAlias and the text as body, and every native session that is in the
\* room of that channel is sent a message_event CREATED of that message.
C30_WirePrivmsgFansOut ==
    \A id \in DOMAIN liveWebIrc, c \in Channels, upper \in BOOLEAN :
        LET w == webPrivmsg(World, liveWebIrc, id,
                            [Text(c) EXCEPT !.upper = upper], "hi", now)
            stored == w.fs.state.messages
            message == stored[Len(stored)]
        IN  liveWebIrc[id].alias # Null =>
                /\ Len(stored) = Len(store.state.messages) + 1
                /\ SubSeq(stored, 1, Len(stored) - 1) = store.state.messages
                /\ message.scope.kind = "channel"
                /\ message.scope.channel = c
                /\ message.senderAlias = liveWebIrc[id].alias
                /\ message.body = "hi"
                /\ message.deletedAt = Null
                /\ \A s \in DOMAIN rooms :
                        roomForChannel(c) \in rooms[s] =>
                            /\ <<s, "message_event", message.messageId, "CREATED">>
                                    \in w.emits
                            /\ w.inbox[s] = Append(inbox[s], message.messageId)

\* two native sessions in the lobby have been sent the message that a line
\* client sent the lobby
C30_Witness ==
    \E id \in DOMAIN liveWebIrc, i \in 1..Len(store.state.messages) :
        /\ liveWebIrc[id].alias # Null
        /\ <<-id, "line", Null, "PRIVMSG">> \in out
        /\ store.state.messages[i].senderAlias = liveWebIrc[id].alias
        /\ Cardinality({s \in DOMAIN rooms :
                /\ roomForChannel(Lobby) \in rooms[s]
                /\ <<s, "message_event", store.state.messages[i].messageId,
                     "CREATED">> \in out}) = 2

\* C31: a NICK of a line client for an alias that another live client holds,
\* a native session or a line client, is answered 433 and leaves the alias of
\* the line client as it was; and no alias is held by two live clients of the
\* two endpoints together, a native session that claims after a line client
\* included.
C31_NickCollision ==
    /\ \A id \in DOMAIN liveWebIrc, a \in Aliases :
            (Holders(a) # {}
             \/ \E other \in DOMAIN liveWebIrc \ {id} : liveWebIrc[other].alias = a)
                => /\ <<0 - id, "line", Null, "433">>
                        \in webNick(World, liveWebIrc, id, Text(a)).w.emits
                   /\ webNick(World, liveWebIrc, id, Text(a)).web = liveWebIrc
    /\ \A a \in Aliases :
            Cardinality(Holders(a))
                + Cardinality({id \in DOMAIN liveWebIrc : liveWebIrc[id].alias = a})
                    <= 1

\* C32: in the sequence-numbered server the history_snapshot sent to a newly
\* connecting client holds every chat message broadcast so far, each with the
\* sequence number it was broadcast with, and the sequence numbers issued to
\* chat messages and system notices are positive, strictly increasing in
\* the order of issue and never reused.
C32_SnapshotAndSequence ==
    /\ \A s \in Sockets \ DOMAIN clientRegistry.clientsBySocketId :
            <<s, "history_snapshot", Null, broadcast>>
                \in seqConnection(SeqWorld, s, s, now).emits
    /\ \A i \in DOMAIN issued : issued[i] > 0
    /\ \A i, j \in DOMAIN issued : i < j => issued[i] < issued[j]
    /\ \A e \in out : e[2] = "chat_receive" =>
            /\ broadcast # <<>>
            /\ broadcast[Len(broadcast)].sequence = e[3]
            /\ issued[Len(issued)] = e[3]

\* a client connected after two chat messages were broadcast between notices
\* and was sent both
C32_SnapshotSent ==
    /\ \E e \in out : e[2] = "history_snapshot" /\ Len(e[4]) = 2 /\ e[4] = broadcast
    /\ Len(issued) >= 4
    /\ \E i \in DOMAIN broadcast : broadcast[i].sequence > i + 1

\* C33: normalizeAlias accepts exactly the inputs whose trimmed value is
\* non-empty, at most 24 characters long and free of C0 control characters
\* and DEL; normalizeMessage accepts exactly those whose trimmed value is
\* non-empty, at most 2000 characters long and free of C0 control characters
\* other than TAB; normalizeChannel accepts exactly the trimmed inputs that
\* match ^#[A-Za-z0-9_-]{1,48}$ and returns them in lower case.
C33_Validators ==
    LET value == sanitizeString(call.input)
        codes == {value[i].c : i \in DOMAIN value}
    IN  /\ call.fn = "normalizeAlias" =>
            /\ call.result.ok <=>
                    /\ value # <<>>
                    /\ length(value) <= 24
                    /\ codes \cap ((0 .. 31) \cup {127}) = {}
            /\ call.result.ok => call.result.value = value
        /\ call.fn = "normalizeMessage" =>
            /\ call.result.ok <=>
                    /\ value # <<>>
                    /\ length(value) <= 2000
                    /\ codes \cap ((0 .. 31) \ {9}) = {}
            /\ call.result.ok => call.result.value = value
        /\ call.fn = "normalizeChannel" =>
            /\ call.result.ok <=> CHANNEL_REGEX(value)
            /\ call.result.ok => call.result.value = toLowerCase(value)

\* C34: parseCommand returns null exactly when the trimmed input does not
\* begin with '/' or is a bare '/'; otherwise name is the first
\* whitespace-delimited token without the slash, in lower case, args are the
\* remaining whitespace-delimited tokens in order, and rawArgs is the text
\* that follows the first token, with the original spacing between the
\* arguments preserved.
C34_ParseCommand ==
    call.fn = "parseCommand" =>
        LET trimmed == trim(call.input)
            tokens == split(trimmed)
        IN  /\ call.result.null <=>
                    \/ trimmed = <<>>
                    \/ trimmed[1].c # 47
                    \/ trimmed = <<[c |-> 47, n |-> 1]>>
            /\ ~call.result.null =>
                    /\ call.result.name = toLowerCase(slice1(tokens[1]))
                    /\ call.result.args = Tail(tokens)
                    /\ call.result.rawArgs =
                            trim(SubSeq(trimmed, Len(tokens[1]) + 1, Len(trimmed)))

BanInForce(a, c) ==
    LET orders == SelectSeq(store.state.moderationActions,
                            LAMBDA m : m.targetAlias = a /\ m.channel = c)
    IN  orders # <<>> /\ orders[Len(orders)].actionType = "BAN"

\* C36: once an OP has run /ban A C, every send_channel_message by A to C is
\* refused with FORBIDDEN until some OP runs /unban A C, whatever join_channel
\* and part_channel events the session of A performs in between.
C36_BanOutlastsRejoin ==
    \A s \in DOMAIN liveClients \ closing, c \in Channels :
        (liveClients[s].alias # Null /\ BanInForce(liveClients[s].alias, c))
            => <<s, "server_error", Null, "FORBIDDEN">>
                    \in sendChannelMessage(World, s, Text(c), "hi", Null, now).emits

\* C37: join_channel is idempotent on an existing membership: when an alias
\* that has a membership row in channel C joins C again, the role of the row
\* is unchanged, so an OWNER, ADMIN, OP or VOICE member is not demoted by
\* joining again.
C37_RejoinKeepsRole ==
    \A s \in DOMAIN liveClients \ closing, c \in Channels :
        (liveClients[s].alias # Null /\ HasMember(store, c, liveClients[s].alias))
            => getMembership(joinChannel(World, s, Text(c), now).fs, c,
                             liveClients[s].alias).role
                    = getMembership(store, c, liveClients[s].alias).role

\* C38: each channel in the channels set of a live session has a membership
\* row in the store for the alias the session holds now, after any sequence
\* of claim_alias, /nick to a different alias, join_channel, part_channel
\* and /kick.
C38_ChannelsHaveRows ==
    \A s \in DOMAIN liveClients \ closing :
        \A i \in DOMAIN liveClients[s].channels :
            HasMember(store, liveClients[s].channels[i], liveClients[s].alias)

\* C39: a history_fetch for a DM scope returns the messages of the
\* conversation only to a session whose alias is one of its two aliases, and
\* a history_fetch for a channel scope returns messages only to a session
\* whose alias has a membership in the channel that is not banned; any other
\* session, one with no alias included, receives no message of the scope.
C39_HistoryOnlyToAudience ==
    \A s \in DOMAIN liveClients \ closing :
        /\ \A id \in DOMAIN store.state.dmConversations :
                (liveClients[s].alias = Null
                 \/ liveClients[s].alias
                        \notin {store.state.dmConversations[id].aliasA,
                                store.state.dmConversations[id].aliasB})
                    => \A e \in historyFetch(World, s, Scope("dm", Null, id, Null),
                                             Null, <<>>).emits :
                            e[2] = "history_snapshot" => e[4] = <<>>
        /\ \A c \in Channels :
                (~getMembership(store, c, liveClients[s].alias).found
                 \/ getMembership(store, c, liveClients[s].alias).isBanned)
                    => \A e \in historyFetch(World, s, Scope("channel", c, Null, Null),
                                             Null, <<>>).emits :
                            e[2] = "history_snapshot" => e[4] = <<>>

====
